---- MODULE Spec2Model ----
(***************************************************************************)
(* Model of the real-time emotion-analysis pipeline of the quantum-backend *)
(* service: api/processing.py (session lifecycle, periodic flush, filter,  *)
(* renumbering, distribution scorer, timelines and formatted timeline,     *)
(* the transcript run process_meeting, the batch video upload, and the     *)
(* four lock-taking handlers as coroutines of the event loop, with and     *)
(* without fair scheduling) and services/ai_service.py                     *)
(* (model replies and their defaults, intensity-weighted scorer).          *)
(*                                                                         *)
(* Units: time in whole seconds, confidences and intensities in percent,   *)
(* scores in tenths where they are rounded to one decimal.  A "MM:SS"      *)
(* string is the pair of the two numbers it prints.                        *)
(***************************************************************************)
EXTENDS Integers, Sequences, FiniteSets, TLC

(***************************************************************************)
(* Bounds of the model                                                     *)
(***************************************************************************)
MaxTime == 5
MaxFrames == 10
MaxAnalyzers == 2
MaxEmotions == 3
MaxDistribution == 2
MaxEntries == 2
MaxTempFiles == 2
MaxPeople == 2

(***************************************************************************)
(* Program constants                                                       *)
(***************************************************************************)
FlushEveryFrames == 10
FlushEverySeconds == 5
MinFrames == 30
MinDurationSeconds == 3
MinDurationPercent == 5
SampleSeconds == 5
DefaultDistributionScore == 5
DefaultIntensityScore10 == 70
DefaultIntensity == 50
FallbackSampleSeconds == 10
FallbackIntensity == 70

Meetings == {"m1", "m2"}
\* the meeting ids the requests of Spec are addressed to
RequestIds == {"m1"}
Platforms == {"google_meet"}

NoSession == [analyzer |-> 0]
NoMeeting == [status |-> "absent"]
NoSummary == [summary |-> "absent"]
NoTime == -1
Coroutines == {"c1", "c2"}
NoCoroutine == "none"
IdleCoroutine == [pc |-> "idle"]
NoDuration == -1

Max(a, b) == IF a >= b THEN a ELSE b

(***************************************************************************)
(* str.lower() on the emotion labels the classifier and the summary use    *)
(***************************************************************************)
Lower(label) ==
  CASE label = "Happy" -> "happy"
    [] label = "HAPPY" -> "happy"
    [] label = "Sad" -> "sad"
    [] label = "Neutral" -> "neutral"
    [] label = "Angry" -> "angry"
    [] OTHER -> label

(***************************************************************************)
(* f"{minutes:02d}:{seconds:02d}" of a number of seconds                   *)
(***************************************************************************)
FormatMMSS(timestamp_seconds) ==
  [mm |-> timestamp_seconds \div 60, ss |-> timestamp_seconds % 60]

(***************************************************************************)
(* round(num / den, 1) in tenths, ties to the even tenth                   *)
(***************************************************************************)
RoundTenths(num, den) ==
  LET q == (10 * num) \div den
      r == (10 * num) % den
  IN  IF 2 * r < den THEN q
      ELSE IF 2 * r > den THEN q + 1
      ELSE IF q % 2 = 0 THEN q ELSE q + 1

RECURSIVE Flatten(_)
Flatten(ss) == IF ss = <<>> THEN <<>> ELSE Head(ss) \o Flatten(Tail(ss))

(***************************************************************************)
(* Distribution-weighted engagement scorer.  The weights 0.9, 0.6, ... are *)
(* kept in tenths, so that (total_score / total_count) * 10 is the         *)
(* fraction num / den of the result.  A distribution is the dict's items   *)
(* in insertion order, a sequence of [emotion, count] with distinct keys.  *)
(***************************************************************************)
EmotionScores10(emotion_lower) ==
  CASE emotion_lower = "happy" -> 9
    [] emotion_lower = "neutral" -> 6
    [] emotion_lower = "sad" -> 3
    [] emotion_lower = "angry" -> 2
    [] emotion_lower = "fear" -> 3
    [] emotion_lower = "surprise" -> 7
    [] emotion_lower = "disgust" -> 2
    [] OTHER -> 5

RECURSIVE DistTotalScore(_)
DistTotalScore(items) ==
  IF items = <<>> THEN 0
  ELSE EmotionScores10(Lower(Head(items).emotion)) * Head(items).count
         + DistTotalScore(Tail(items))

RECURSIVE DistTotalCount(_)
DistTotalCount(items) ==
  IF items = <<>> THEN 0
  ELSE Head(items).count + DistTotalCount(Tail(items))

StopEngagementScoreZeroDefault(overall_emotion_distribution) ==
  LET total_score == DistTotalScore(overall_emotion_distribution)
      total_count == DistTotalCount(overall_emotion_distribution)
  IN  IF total_count > 0 THEN [num |-> total_score, den |-> total_count]
      ELSE [num |-> 0, den |-> 1]

\* stop_emotion_analysis: engagement_score as the fraction num / den
StopEngagementScore(overall_emotion_distribution) ==
  LET total_score == DistTotalScore(overall_emotion_distribution)
      total_count == DistTotalCount(overall_emotion_distribution)
  IN  IF total_count > 0 THEN [num |-> total_score, den |-> total_count]
      ELSE [num |-> DefaultDistributionScore, den |-> 1]

\* analyze_video_emotions: engagement_score as the fraction num / den
BatchEngagementScore(overall_emotion_distribution) ==
  LET total_score == DistTotalScore(overall_emotion_distribution)
      total_count == DistTotalCount(overall_emotion_distribution)
  IN  IF total_count > 0 THEN [num |-> total_score, den |-> total_count]
      ELSE [num |-> DefaultDistributionScore, den |-> 1]

(***************************************************************************)
(* Intensity-weighted scorer of AIService.  Intensities in percent; an     *)
(* entry without the key "intensity" carries MissingIntensity.  The result *)
(* is in tenths (round(..., 1)).                                           *)
(***************************************************************************)
MissingIntensity == -1

IntensityScores(emotion) ==
  CASE emotion = "happy" -> 9
    [] emotion = "neutral" -> 7
    [] emotion = "concerned" -> 5
    [] emotion = "frustrated" -> 3
    [] OTHER -> 7

EntryWeight(entry) ==
  IF entry.intensity = MissingIntensity THEN DefaultIntensity ELSE entry.intensity

RECURSIVE IntensityTotalScore(_)
IntensityTotalScore(emotions) ==
  IF emotions = <<>> THEN 0
  ELSE IntensityScores(Head(emotions).emotion) * EntryWeight(Head(emotions))
         + IntensityTotalScore(Tail(emotions))

RECURSIVE IntensityTotalWeight(_)
IntensityTotalWeight(emotions) ==
  IF emotions = <<>> THEN 0
  ELSE EntryWeight(Head(emotions)) + IntensityTotalWeight(Tail(emotions))

calculate_overall_emotion_score_midpoint(emotions) ==
  IF emotions = <<>> THEN 10 * DefaultDistributionScore
  ELSE IF IntensityTotalWeight(emotions) = 0 THEN 10 * DefaultDistributionScore
  ELSE RoundTenths(IntensityTotalScore(emotions), IntensityTotalWeight(emotions))

calculate_overall_emotion_score(emotions) ==
  IF emotions = <<>> THEN DefaultIntensityScore10
  ELSE IF IntensityTotalWeight(emotions) = 0 THEN DefaultIntensityScore10
  ELSE RoundTenths(IntensityTotalScore(emotions), IntensityTotalWeight(emotions))

(***************************************************************************)
(* False-positive filter and renumbering.  A summary is                    *)
(*   [meeting_duration, people, total_people_active,                       *)
(*    overall_emotion_distribution],                                       *)
(* a person [person_id, person_name, total_duration, total_frames,         *)
(* speaking_sessions]; the name "Person k" is the pair <<"Person", k>>.    *)
(* person_duration >= max(meeting_duration * 0.05, 3.0) is compared in     *)
(* hundredths of a second.                                                 *)
(***************************************************************************)
PersonName(idx) == <<"Person", idx>>

KeepsPerson(person_data, meeting_duration) ==
  /\ 100 * person_data.total_duration
       >= Max(MinDurationPercent * meeting_duration, 100 * MinDurationSeconds)
  /\ person_data.total_frames >= MinFrames

RenumberPeople(filtered_people) ==
  [idx \in 1..Len(filtered_people) |->
     [filtered_people[idx] EXCEPT !.person_id = idx,
                                  !.person_name = PersonName(idx)]]

StopFilterPeopleDropsCounts(summary) ==
  IF summary.meeting_duration > 0
  THEN LET Keep(person_data) == KeepsPerson(person_data, summary.meeting_duration)
           filtered_people == SelectSeq(summary.people, Keep)
       IN  [summary EXCEPT !.people = RenumberPeople(filtered_people),
                           !.total_people_active = Len(filtered_people),
                           !.overall_emotion_distribution =
                              IF Len(filtered_people) < Len(summary.people)
                              THEN <<>> ELSE @]
  ELSE summary

\* stop_emotion_analysis, the block under "if meeting_duration > 0"
StopFilterPeople(summary) ==
  IF summary.meeting_duration > 0
  THEN LET Keep(person_data) == KeepsPerson(person_data, summary.meeting_duration)
           filtered_people == SelectSeq(summary.people, Keep)
       IN  [summary EXCEPT !.people = RenumberPeople(filtered_people),
                           !.total_people_active = Len(filtered_people)]
  ELSE summary

BatchFilterPeopleKeepsIds(summary) ==
  IF summary.meeting_duration > 0
  THEN LET Keep(person_data) == KeepsPerson(person_data, summary.meeting_duration)
           filtered_people == SelectSeq(summary.people, Keep)
       IN  [summary EXCEPT !.people = filtered_people,
                           !.total_people_active = Len(filtered_people)]
  ELSE summary

\* analyze_video_emotions, the block under "if meeting_duration > 0"
BatchFilterPeople(summary) ==
  IF summary.meeting_duration > 0
  THEN LET Keep(person_data) == KeepsPerson(person_data, summary.meeting_duration)
           filtered_people == SelectSeq(summary.people, Keep)
       IN  [summary EXCEPT !.people = RenumberPeople(filtered_people),
                           !.total_people_active = Len(filtered_people)]
  ELSE summary

(***************************************************************************)
(* Emotion timeline: one point every 5 seconds of each speaking session    *)
(* [start_time, end_time, duration, dominant_emotion, average_confidence]. *)
(* An absent dominant emotion is the empty label.                          *)
(***************************************************************************)
TimelineEmotion(dominant_emotion) ==
  IF dominant_emotion # "" THEN Lower(dominant_emotion) ELSE "neutral"

SessionTimeline(session) ==
  IF session.duration > 0
  THEN LET num_samples == Max(1, session.duration \div SampleSeconds)
       IN  [k \in 1..num_samples |->
              [timestamp |-> FormatMMSS(session.start_time
                               + ((k - 1) * session.duration) \div num_samples),
               emotion |-> TimelineEmotion(session.dominant_emotion),
               intensity |-> session.average_confidence]]
  ELSE <<>>

PersonTimeline(person_data) ==
  Flatten([k \in 1..Len(person_data.speaking_sessions) |->
             SessionTimeline(person_data.speaking_sessions[k])])

\* stop_emotion_analysis: emotion_timeline of the (filtered) summary
StopEmotionTimeline(summary) ==
  Flatten([k \in 1..Len(summary.people) |-> PersonTimeline(summary.people[k])])

(***************************************************************************)
(* Formatted timeline of stop: every speaking session cut into segments of *)
(* 10 seconds, one entry [time_range, person, emotion, start_time,         *)
(* end_time] per segment, the entries sorted by start_time.  A time range  *)
(* "MM:SS to MM:SS" is the pair of its two formatted times.                *)
(***************************************************************************)
SegmentSeconds == 10

Min(a, b) == IF a <= b THEN a ELSE b

\* str.capitalize() on the emotion labels
Capitalize(label) ==
  CASE Lower(label) = "happy" -> "Happy"
    [] Lower(label) = "sad" -> "Sad"
    [] Lower(label) = "neutral" -> "Neutral"
    [] Lower(label) = "angry" -> "Angry"
    [] label = "bored" -> "Bored"
    [] OTHER -> label

FormattedEmotion(dominant_emotion) ==
  IF dominant_emotion # "" THEN Capitalize(dominant_emotion) ELSE "Neutral"

\* "num_segments = max(1, int(session_duration / segment_duration))" and the
\* loop over range(num_segments)
SessionSegments(person_name, session) ==
  IF session.duration > 0
  THEN LET num_segments == Max(1, session.duration \div SegmentSeconds)
       IN  [k \in 1..num_segments |->
              LET segment_start == session.start_time + (k - 1) * SegmentSeconds
                  segment_end == Min(session.start_time + k * SegmentSeconds,
                                     session.end_time)
              IN  [time_range |-> <<FormatMMSS(segment_start), FormatMMSS(segment_end)>>,
                   person |-> person_name,
                   emotion |-> FormattedEmotion(session.dominant_emotion),
                   start_time |-> segment_start,
                   end_time |-> segment_end]]
  ELSE <<>>

PersonSegments(person_data) ==
  Flatten([k \in 1..Len(person_data.speaking_sessions) |->
             SessionSegments(person_data.person_name,
                             person_data.speaking_sessions[k])])

\* an entry put behind the entries of the sorted list that do not start
\* later than it
RECURSIVE InsertByStartTime(_, _)
InsertByStartTime(sorted, entry) ==
  IF sorted = <<>> THEN <<entry>>
  ELSE IF Head(sorted).start_time <= entry.start_time
  THEN <<Head(sorted)>> \o InsertByStartTime(Tail(sorted), entry)
  ELSE <<entry>> \o sorted

\* the entries inserted one after the other, in their order
RECURSIVE InsertAllByStartTime(_)
InsertAllByStartTime(entries) ==
  IF entries = <<>> THEN <<>>
  ELSE InsertByStartTime(InsertAllByStartTime(SubSeq(entries, 1, Len(entries) - 1)),
                         entries[Len(entries)])

SortByStartTimeKeepsOrder(entries) == entries

\* "formatted_timeline.sort(key=lambda x: x['start_time'])": a stable sort
SortByStartTime(entries) == InsertAllByStartTime(entries)

\* stop_emotion_analysis: formatted_timeline of the (filtered) summary
StopFormattedTimeline(summary) ==
  SortByStartTime(
    Flatten([k \in 1..Len(summary.people) |-> PersonSegments(summary.people[k])]))

\* max(overall_emotion_distribution.items(), key=count)[0]: the first maximum
RECURSIVE FirstMaxEmotion(_)
FirstMaxEmotion(items) ==
  IF Len(items) = 1 THEN Head(items)
  ELSE LET rest == FirstMaxEmotion(Tail(items))
       IN  IF Head(items).count >= rest.count THEN Head(items) ELSE rest

\* analyze_video_emotions: emotion_timeline, with the fallback sampled from
\* the overall distribution every 10 seconds at intensity 0.7
BatchEmotionTimeline(summary) ==
  LET from_sessions ==
        Flatten([k \in 1..Len(summary.people) |-> PersonTimeline(summary.people[k])])
      dominant_emotion ==
        IF summary.overall_emotion_distribution # <<>>
        THEN FirstMaxEmotion(summary.overall_emotion_distribution).emotion
        ELSE "neutral"
      num_samples == Max(1, summary.meeting_duration \div FallbackSampleSeconds)
  IN  IF from_sessions = <<>> /\ summary.meeting_duration > 0
      THEN [k \in 1..num_samples |->
              [timestamp |-> FormatMMSS((k - 1) * FallbackSampleSeconds),
               emotion |-> TimelineEmotion(dominant_emotion),
               intensity |-> FallbackIntensity]]
      ELSE from_sessions

(***************************************************************************)
(* State                                                                   *)
(*   active_emotion_analyzers  the live mapping meeting id -> session      *)
(*   emotion_rows              committed rows of table emotions, by meeting*)
(*   meeting_rows              committed row of table meetings, by meeting *)
(*   now                       time.time()                                 *)
(*   analyzers_created         number of MeetingEmotionAnalyzer objects    *)
(*                             built so far (an object's identity)         *)
(*   response                  what the last request returned              *)
(*   summary_rows              committed row of table summaries, by meeting*)
(*   action_item_rows          committed rows of table action_items, by    *)
(*                             meeting                                     *)
(*   temp_files                number of temporary upload files on disk    *)
(*   lock_holder               the coroutine that holds                    *)
(*                             emotion_analysis_lock, or NoCoroutine       *)
(*   coroutines                the request coroutines of the event loop:   *)
(*                             where each one is (pc), and for a           *)
(*                             process_frame suspended at its await, the   *)
(*                             meeting id and the session dict it read     *)
(*   call                      a direct call of one of the scoring         *)
(*                             functions: [fn, arg, ret]; used by the      *)
(*                             specifications of the pure functions only   *)
(***************************************************************************)
VARIABLES active_emotion_analyzers, emotion_rows, meeting_rows, now,
          analyzers_created, response, call, summary_rows, action_item_rows,
          temp_files, lock_holder, coroutines

vars == <<active_emotion_analyzers, emotion_rows, meeting_rows, now,
          analyzers_created, response, call, summary_rows, action_item_rows,
          temp_files, lock_holder, coroutines>>

\* the lock and the coroutines of the event loop; the specifications whose
\* actions are whole requests leave them as they are
loop == <<lock_holder, coroutines>>

\* the tables only the transcript run writes
pipeline == <<summary_rows, action_item_rows>>

\* Inputs the environment supplies
SessionHappy ==
  [start_time |-> 58, end_time |-> 70, duration |-> 12,
   dominant_emotion |-> "Happy", average_confidence |-> 80]
SessionShort ==
  [start_time |-> 0, end_time |-> 4, duration |-> 4,
   dominant_emotion |-> "", average_confidence |-> 60]

TrackedPerson(id, dur, frames, sessions) ==
  [person_id |-> id, person_name |-> PersonName(id), total_duration |-> dur,
   total_frames |-> frames, speaking_sessions |-> sessions]

AnalyzerSummary(duration, people, distribution) ==
  [meeting_duration |-> duration, people |-> people,
   total_people_active |-> Len(people),
   overall_emotion_distribution |-> distribution]

\* what analyze_meeting_video returns in the batch path
VideoSummaries ==
  { AnalyzerSummary(0, <<TrackedPerson(3, 2, 45, <<SessionShort>>)>>,
                    <<[emotion |-> "Sad", count |-> 45]>>),
    AnalyzerSummary(100, <<TrackedPerson(2, 4, 45, <<SessionShort>>),
                           TrackedPerson(5, 12, 90, <<SessionHappy>>)>>,
                    <<[emotion |-> "Happy", count |-> 90],
                      [emotion |-> "bored", count |-> 45]>>) }

\* what analyzer.get_meeting_summary returns at stop
Summaries ==
  VideoSummaries \cup
  { AnalyzerSummary(0, <<>>, <<>>),
    AnalyzerSummary(40, <<TrackedPerson(1, 4, 29, <<SessionShort>>),
                          TrackedPerson(3, 4, 30, <<SessionShort>>)>>,
                    <<[emotion |-> "neutral", count |-> 59]>>) }

FrameResults ==
  { <<>>, <<[emotion |-> "Happy", confidence |-> 80]>> }

\* the service right after start-up: no session, empty tables
ServiceInit ==
  /\ active_emotion_analyzers = [m \in Meetings |-> NoSession]
  /\ emotion_rows = [m \in Meetings |-> <<>>]
  /\ meeting_rows = [m \in Meetings |-> NoMeeting]
  /\ now = 0
  /\ analyzers_created = 0
  /\ response = [op |-> "none"]
  /\ summary_rows = [m \in Meetings |-> NoSummary]
  /\ action_item_rows = [m \in Meetings |-> <<>>]
  /\ temp_files = 0
  /\ lock_holder = NoCoroutine
  /\ coroutines = [c \in Coroutines |-> IdleCoroutine]

Init ==
  /\ ServiceInit
  /\ call = [fn |-> "none"]

\* time passes between two requests, in steps of the flush period
Tick ==
  /\ now + FlushEverySeconds <= MaxTime
  /\ now' = now + FlushEverySeconds
  /\ UNCHANGED <<active_emotion_analyzers, emotion_rows, meeting_rows,
                 analyzers_created, response, call, pipeline, temp_files,
                 loop>>

Reply(op, meeting_id, status_code, detail) ==
  [op |-> op, meeting_id |-> meeting_id, status_code |-> status_code,
   detail |-> detail]

(***************************************************************************)
(* POST start-emotion-analysis.  outcome: "ok", "analyzer_error" (import   *)
(* or construction of the analyzer raises), "db_error" (query or commit of *)
(* the Meeting record raises).                                             *)
(***************************************************************************)
AlreadyRunningNever(meeting_id) == FALSE

\* "if meeting_id in active_emotion_analyzers"
AlreadyRunning(meeting_id) == active_emotion_analyzers[meeting_id] # NoSession

NewSessionCountsFromOne(analyzer, start_time, platform) ==
  [analyzer |-> analyzer, start_time |-> start_time, platform |-> platform,
   frames_processed |-> 1, last_save_time |-> NoTime]

\* the dict stored in the live mapping for a new session
NewSession(analyzer, start_time, platform) ==
  [analyzer |-> analyzer, start_time |-> start_time, platform |-> platform,
   frames_processed |-> 0, last_save_time |-> NoTime]

StartMeetingRowKeepsStatus(meeting, platform) ==
  IF meeting = NoMeeting
  THEN [status |-> "active", platform |-> platform, duration |-> NoDuration]
  ELSE meeting

\* "if not meeting: meeting = Meeting(..., status="active"); db.add(meeting)
\*  else: meeting.status = "active""
StartMeetingRow(meeting, platform) ==
  IF meeting = NoMeeting
  THEN [status |-> "active", platform |-> platform, duration |-> NoDuration]
  ELSE [meeting EXCEPT !.status = "active"]

StoreSessionInFreshDict(mapping, meeting_id, session) ==
  [m \in Meetings |-> IF m = meeting_id THEN session ELSE NoSession]

\* "active_emotion_analyzers[meeting_id] = {...}"
StoreSession(mapping, meeting_id, session) ==
  [mapping EXCEPT ![meeting_id] = session]

start_emotion_analysis(meeting_id, platform, outcome) ==
  IF AlreadyRunning(meeting_id)
  THEN /\ outcome = "ok"
       /\ response' = Reply("start", meeting_id, 200, "already running")
       /\ UNCHANGED <<active_emotion_analyzers, emotion_rows, meeting_rows,
                      now, analyzers_created>>
  ELSE IF outcome = "analyzer_error"
  THEN /\ response' = Reply("start", meeting_id, 500, "failed to start")
       /\ UNCHANGED <<active_emotion_analyzers, emotion_rows, meeting_rows,
                      now, analyzers_created>>
  ELSE /\ analyzers_created < MaxAnalyzers
       /\ analyzers_created' = analyzers_created + 1
       /\ active_emotion_analyzers' =
            StoreSession(active_emotion_analyzers, meeting_id,
                         NewSession(analyzers_created + 1, now, platform))
       /\ IF outcome = "db_error"
          THEN /\ meeting_rows' = meeting_rows
               /\ response' = Reply("start", meeting_id, 500, "failed to start")
          ELSE /\ meeting_rows' =
                    [meeting_rows EXCEPT ![meeting_id] =
                       StartMeetingRow(@, platform)]
               /\ response' = Reply("start", meeting_id, 200, "started")
       /\ UNCHANGED <<emotion_rows, now>>

(***************************************************************************)
(* POST process-emotion-frame.  outcome: "ok", "frame_error" (reading or   *)
(* decoding the upload, or analyzer.process_frame, raises), "db_error"     *)
(* (the commit of the periodic save raises).  frame_results is what the    *)
(* analyzer returns for the frame.  The field saved of the reply records   *)
(* whether the request ran the periodic save (the db.commit of the block). *)
(* The handler takes the lock first and keeps it to its end, its one await *)
(* (file.read) included; the action is the whole handler.                  *)
(***************************************************************************)
\* hasattr(analyzer_data, 'last_save_time'): analyzer_data is a dict, and a
\* key of a dict is not an attribute of it
HasLastSaveTimeAttr(analyzer_data) == FALSE

FrameRecords(frame_results, timestamp_seconds) ==
  [k \in 1..Len(frame_results) |->
     [timestamp |-> FormatMMSS(timestamp_seconds),
      emotion |-> Lower(frame_results[k].emotion),
      intensity |-> frame_results[k].confidence]]

FrameHTTPExceptionSwallowed(status_code) == 500

\* "except HTTPException: raise" of process_emotion_frame
FrameHTTPException(status_code) == status_code

process_emotion_frame(meeting_id, outcome, frame_results) ==
  LET analyzer_data == active_emotion_analyzers[meeting_id]
      frames_processed == analyzer_data.frames_processed + 1
      current_time == now
      last_save_time == IF ~HasLastSaveTimeAttr(analyzer_data)
                        THEN current_time
                        ELSE analyzer_data.last_save_time
      save == \/ frames_processed % FlushEveryFrames = 0
              \/ current_time - last_save_time >= FlushEverySeconds
  IN
  IF analyzer_data = NoSession
  THEN /\ outcome = "ok"
       /\ frame_results = <<>>
       /\ response' = Reply("process_frame", meeting_id, FrameHTTPException(400), "not started")
       /\ UNCHANGED <<active_emotion_analyzers, emotion_rows, meeting_rows,
                      now, analyzers_created>>
  ELSE IF outcome = "frame_error"
  THEN /\ frame_results = <<>>
       /\ response' = Reply("process_frame", meeting_id, 500, "failed to process frame")
       /\ UNCHANGED <<active_emotion_analyzers, emotion_rows, meeting_rows,
                      now, analyzers_created>>
  ELSE /\ analyzer_data.frames_processed < MaxFrames
       /\ outcome = "db_error" => save
       /\ active_emotion_analyzers' =
            [active_emotion_analyzers EXCEPT ![meeting_id] =
               [analyzer_data EXCEPT !.frames_processed = frames_processed,
                                     !.last_save_time = last_save_time]]
       /\ IF save /\ outcome = "ok"
          THEN /\ Len(emotion_rows[meeting_id]) + Len(frame_results) <= MaxEmotions
               /\ emotion_rows' =
                    [emotion_rows EXCEPT ![meeting_id] =
                       @ \o FrameRecords(frame_results,
                                         current_time - analyzer_data.start_time)]
          ELSE emotion_rows' = emotion_rows
       /\ response' =
            IF outcome = "db_error"
            THEN Reply("process_frame", meeting_id, 500, "failed to process frame")
            ELSE [op |-> "process_frame", meeting_id |-> meeting_id,
                  status_code |-> 200, detail |-> "processed",
                  frame_results |-> frame_results, saved |-> save]
       /\ UNCHANGED <<meeting_rows, now, analyzers_created>>

(***************************************************************************)
(* POST stop-emotion-analysis.  outcome: "ok", "summary_error"             *)
(* (analyzer.get_meeting_summary raises), "db_error" (a query or the       *)
(* commit raises; the request's database session is closed uncommitted).   *)
(* summary is what the analyzer returns.                                   *)
(***************************************************************************)
\* the people the reply is built from, without their speaking sessions
SummaryPeople(people) ==
  [k \in 1..Len(people) |->
     [person_id |-> people[k].person_id,
      person_name |-> people[k].person_name,
      total_duration |-> people[k].total_duration,
      total_frames |-> people[k].total_frames]]

StopEmotionRowsAppended(rows, emotion_timeline) == rows \o emotion_timeline

\* "db.query(Emotion).filter(...).delete()" followed by one db.add per point
StopEmotionRows(rows, emotion_timeline) == emotion_timeline

StopMeetingRow(meeting, meeting_duration) ==
  IF meeting = NoMeeting THEN meeting
  ELSE [meeting EXCEPT !.status = "completed",
                       !.duration = IF meeting_duration # 0
                                    THEN meeting_duration \div 60
                                    ELSE @]

RemoveSessionForgotten(mapping, meeting_id) == mapping

\* "del active_emotion_analyzers[meeting_id]"
RemoveSession(mapping, meeting_id) == [mapping EXCEPT ![meeting_id] = NoSession]

SessionRemovedBeforeCommit(mapping, meeting_id) ==
  [mapping EXCEPT ![meeting_id] = NoSession]

\* "db.commit()" comes before "del active_emotion_analyzers[meeting_id]":
\* a commit that raises leaves the mapping as it is
SessionAfterFailedCommit(mapping, meeting_id) == mapping

StopHTTPExceptionSwallowed(status_code) == 500

\* "except HTTPException: raise" of stop_emotion_analysis
StopHTTPException(status_code) == status_code

stop_emotion_analysis(meeting_id, outcome, analyzer_summary) ==
  LET analyzer_data == active_emotion_analyzers[meeting_id]
      summary == StopFilterPeople(analyzer_summary)
      engagement_score == StopEngagementScore(summary.overall_emotion_distribution)
      emotion_timeline == StopEmotionTimeline(summary)
  IN
  IF analyzer_data = NoSession
  THEN /\ outcome = "ok"
       /\ analyzer_summary = AnalyzerSummary(0, <<>>, <<>>)
       /\ response' = Reply("stop", meeting_id, StopHTTPException(400), "not running")
       /\ UNCHANGED <<active_emotion_analyzers, emotion_rows, meeting_rows,
                      now, analyzers_created>>
  ELSE IF outcome = "summary_error"
  THEN /\ analyzer_summary = AnalyzerSummary(0, <<>>, <<>>)
       /\ response' = Reply("stop", meeting_id, 500, "failed to stop")
       /\ UNCHANGED <<active_emotion_analyzers, emotion_rows, meeting_rows,
                      now, analyzers_created>>
  ELSE IF outcome = "db_error"
  THEN /\ analyzer_summary = AnalyzerSummary(0, <<>>, <<>>)
       /\ response' = Reply("stop", meeting_id, 500, "failed to stop")
       /\ active_emotion_analyzers' =
            SessionAfterFailedCommit(active_emotion_analyzers, meeting_id)
       /\ UNCHANGED <<emotion_rows, meeting_rows, now, analyzers_created>>
  ELSE /\ emotion_rows' =
            [emotion_rows EXCEPT ![meeting_id] = StopEmotionRows(@, emotion_timeline)]
       /\ meeting_rows' =
            [meeting_rows EXCEPT ![meeting_id] =
               StopMeetingRow(@, summary.meeting_duration)]
       /\ active_emotion_analyzers' =
            RemoveSession(active_emotion_analyzers, meeting_id)
       /\ response' =
            [op |-> "stop", meeting_id |-> meeting_id, status_code |-> 200,
             detail |-> "completed",
             engagement_score |-> RoundTenths(engagement_score.num, engagement_score.den),
             timeline |-> emotion_timeline,
             formatted_timeline |-> StopFormattedTimeline(summary),
             meeting_duration |-> summary.meeting_duration,
             total_people_active |-> summary.total_people_active,
             frames_processed |-> analyzer_data.frames_processed,
             people |-> SummaryPeople(summary.people)]
       /\ UNCHANGED <<now, analyzers_created>>

(***************************************************************************)
(* POST analyze-video-emotions (batch).  meeting_id may be absent          *)
(* (NoMeetingId).  content_type and file_size (in MB) describe the upload. *)
(* outcome: "ok", "stream_error" (reading the upload raises),              *)
(* "write_error" (tmp_file.write raises after NamedTemporaryFile created   *)
(* the file), "analysis_error" (analyze_meeting_video raises), "db_error"  *)
(* (saving the timeline raises), "unlink_error" (os.unlink raises in the   *)
(* finally clauses, after an analysis that succeeded).  The try of line    *)
(* 389 has no clause of its own; the control flow modelled is that of the  *)
(* try blocks of lines 371 and 394 with their except and finally clauses.  *)
(* temp_files counts the temporary files the handler created and left on   *)
(* disk.                                                                   *)
(***************************************************************************)
NoMeetingId == ""
NoContentType == <<>>
MaxUploadMB == 500

\* "not file.content_type or not file.content_type.startswith('video/')"
NotVideo(content_type) ==
  content_type = NoContentType \/ Head(content_type) # "video"

\* "if file_size > 500 * 1024 * 1024"
TooLarge(file_size) == file_size > MaxUploadMB

VideoHTTPExceptionSwallowed(status_code) == 500

\* "except HTTPException: raise" of analyze_video_emotions
VideoHTTPException(status_code) == status_code

\* "video_path = None" ... "video_path = tmp_file.name": the name is bound
\* only after tmp_file.write returned
VideoPathBound(outcome) == outcome # "write_error"

\* the finally clauses: "if video_path and os.path.exists(video_path):
\* os.unlink(video_path)"; the number of files the request leaves behind
FilesLeftBehind(outcome) ==
  IF ~VideoPathBound(outcome) \/ outcome = "unlink_error" THEN 1 ELSE 0

analyze_video_emotions(meeting_id, content_type, file_size, outcome, analyzer_summary) ==
  LET summary == BatchFilterPeople(analyzer_summary)
      engagement_score == BatchEngagementScore(summary.overall_emotion_distribution)
      emotion_timeline == BatchEmotionTimeline(summary)
      saved == outcome \in {"ok", "unlink_error"} /\ meeting_id # NoMeetingId
  IN
  IF NotVideo(content_type)
  THEN /\ response' = Reply("analyze_video", meeting_id,
                            VideoHTTPException(400), "not_video")
       /\ UNCHANGED <<active_emotion_analyzers, emotion_rows, meeting_rows,
                      now, analyzers_created, temp_files>>
  ELSE IF outcome = "stream_error"
  THEN /\ response' = Reply("analyze_video", meeting_id, 500, outcome)
       /\ UNCHANGED <<active_emotion_analyzers, emotion_rows, meeting_rows,
                      now, analyzers_created, temp_files>>
  ELSE IF TooLarge(file_size)
  THEN /\ response' = Reply("analyze_video", meeting_id,
                            VideoHTTPException(413), "too_large")
       /\ UNCHANGED <<active_emotion_analyzers, emotion_rows, meeting_rows,
                      now, analyzers_created, temp_files>>
  ELSE /\ outcome = "db_error" => meeting_id # NoMeetingId
       /\ temp_files + FilesLeftBehind(outcome) <= MaxTempFiles
       /\ temp_files' = temp_files + FilesLeftBehind(outcome)
       /\ emotion_rows' =
            IF saved
            THEN [emotion_rows EXCEPT ![meeting_id] = emotion_timeline]
            ELSE emotion_rows
       /\ response' =
            IF outcome # "ok"
            THEN Reply("analyze_video", meeting_id, 500, outcome)
            ELSE [op |-> "analyze_video", meeting_id |-> meeting_id,
                  status_code |-> 200, detail |-> "completed",
                  engagement_score |->
                    RoundTenths(engagement_score.num, engagement_score.den),
                  timeline |-> emotion_timeline,
                  meeting_duration |-> summary.meeting_duration,
                  total_people_active |-> summary.total_people_active,
                  people |-> SummaryPeople(summary.people)]
       /\ UNCHANGED <<active_emotion_analyzers, meeting_rows, now, analyzers_created>>

(***************************************************************************)
(* services/ai_service.py.  A reply of the generative model is either an   *)
(* exception of generate_content (raised) or a text; a text is a sequence  *)
(* of tokens: a markdown fence (opening a json block, or bare), prose, or  *)
(* one JSON document.  A JSON value carries its Python type (dict, list).  *)
(***************************************************************************)
FenceJson == [tok |-> "fence_json"]
Fence == [tok |-> "fence"]
Prose == [tok |-> "prose"]
JsonDoc(type, value) == [tok |-> "json", type |-> type, value |-> value]

Raised == [raised |-> TRUE]
Text(tokens) == [raised |-> FALSE, text |-> tokens]

\* the three ifs that remove a leading json fence, a leading fence and a
\* trailing fence, in this order
StripFences(result_text) ==
  LET a == IF result_text # <<>> /\ Head(result_text) = FenceJson
           THEN Tail(result_text) ELSE result_text
      b == IF a # <<>> /\ Head(a) = Fence THEN Tail(a) ELSE a
  IN  IF b # <<>> /\ b[Len(b)] = Fence THEN SubSeq(b, 1, Len(b) - 1) ELSE b

\* json.loads succeeds on a text that is exactly one JSON document
JsonLoadsRaises(result_text) ==
  ~(Len(result_text) = 1 /\ result_text[1].tok = "json")

JsonLoads(result_text) ==
  [type |-> result_text[1].type, value |-> result_text[1].value]

\* the try body the three functions share: True when it raises
ReplyRaises(reply) ==
  reply.raised \/ JsonLoadsRaises(StripFences(reply.text))

ReplyResult(reply) == JsonLoads(StripFences(reply.text))

\* the dict generate_summary returns from its except clause
FailedSummary ==
  [type |-> "dict",
   value |-> [summary |-> "Failed to generate summary",
              key_points |-> <<>>, decisions |-> <<>>]]

EmptyList == [type |-> "list", value |-> <<>>]

generate_summary_returns_list(reply) ==
  IF ReplyRaises(reply) THEN EmptyList ELSE ReplyResult(reply)

generate_summary(reply) ==
  IF ReplyRaises(reply) THEN FailedSummary ELSE ReplyResult(reply)

extract_action_items(reply) ==
  IF ReplyRaises(reply) THEN EmptyList ELSE ReplyResult(reply)

analyze_emotions(reply) ==
  IF ReplyRaises(reply) THEN EmptyList ELSE ReplyResult(reply)

\* Inputs of the transcript run
GoodSummary ==
  [summary |-> "Sprint review", key_points |-> <<"velocity">>,
   decisions |-> <<"ship">>]
GoodActionItems == <<[task |-> "write report", priority |-> "high"]>>
GoodEmotions ==
  <<[timestamp |-> FormatMMSS(15), emotion |-> "concerned", intensity |-> 60]>>

SummaryReplies ==
  { Raised,
    Text(<<Prose>>),
    Text(<<FenceJson, JsonDoc("dict", GoodSummary), Fence>>),
    Text(<<JsonDoc("list", <<>>)>>) }

ActionItemReplies ==
  { Raised,
    Text(<<Fence, JsonDoc("list", GoodActionItems), Fence>>),
    Text(<<JsonDoc("dict", [error |-> "quota"])>>) }

EmotionReplies ==
  { Raised,
    Text(<<JsonDoc("list", <<>>), Prose>>),
    Text(<<JsonDoc("list", GoodEmotions)>>),
    Text(<<FenceJson, JsonDoc("dict", [error |-> "quota"])>>) }

\* what vexa_client.get_transcript returned: None or {}, a dict without the
\* key 'transcript', or a dict whose transcript gives transcript_text
TranscriptResults ==
  { [empty |-> TRUE],
    [empty |-> FALSE, has_transcript |-> FALSE],
    [empty |-> FALSE, has_transcript |-> TRUE, transcript_text |-> ""],
    [empty |-> FALSE, has_transcript |-> TRUE, transcript_text |-> "Ana: hello"] }

(***************************************************************************)
(* POST process (transcript run).  The numbered steps are those of the     *)
(* source: 1 fetch transcript, 2 Meeting row to processing (commit),       *)
(* 3 transcripts, 4 summary, 5 action items, 6 participants, 7 emotions,   *)
(* 9 Meeting row to completed; every step ends with a commit.  Inputs: the *)
(* transcript result, the three replies of the generative model, and       *)
(* db_fails_at: the step whose database call raises (NoStep for none;      *)
(* step 1 stands for get_transcript raising, step 2 for the query of the   *)
(* Meeting row raising), with handler_commit_ok telling whether the commit *)
(* of the except block, when it runs, succeeds.  Any exception of the try  *)
(* block,                                                                  *)
(* HTTPException included, is caught by "except Exception".  Of the tables *)
(* the handler writes, meetings, summaries, action_items and emotions are  *)
(* modelled.                                                               *)
(***************************************************************************)
NoStep == 0
LastStep == 9

\* "except Exception as e: ... raise HTTPException(status_code=500, ...)":
\* process_meeting has no "except HTTPException: raise"
ProcessMeetingException(status_code) == 500

\* "not transcript_result or 'transcript' not in transcript_result"
TranscriptNotFound(transcript_result) ==
  transcript_result.empty \/ ~transcript_result.has_transcript

\* "for item in data: ... item.get(...)": iterating a non-empty dict yields
\* its keys, and a key (a str) has no .get
ItemsRaise(data) == data.type # "list" /\ DOMAIN data.value # {}

\* the step at which the try block raises after the Meeting row was set to
\* processing (NoStep when it runs to its end)
RaisesAt(summary_data, action_items_data, emotions_data, db_fails_at) ==
  IF db_fails_at = 3 THEN 3
  ELSE IF summary_data.type # "dict" \/ db_fails_at = 4 THEN 4
  ELSE IF ItemsRaise(action_items_data) \/ db_fails_at = 5 THEN 5
  ELSE IF db_fails_at = 6 THEN 6
  ELSE IF ItemsRaise(emotions_data) \/ db_fails_at = 7 THEN 7
  ELSE IF db_fails_at = 9 THEN 9
  ELSE NoStep

\* "if 'meeting' in locals(): meeting.status = "failed"; db.commit()"
HandlerMarksFailed(meeting) == [meeting EXCEPT !.status = "failed"]

\* "meeting.status = "completed"; db.commit()"
MeetingCompleted(meeting) == [meeting EXCEPT !.status = "completed"]

process_meeting(meeting_id, platform, transcript_result, summary_reply, action_items_reply, emotions_reply, db_fails_at, handler_commit_ok) ==
  LET meeting == IF meeting_rows[meeting_id] = NoMeeting
                 THEN [status |-> "processing", platform |-> platform,
                       duration |-> NoDuration]
                 ELSE [meeting_rows[meeting_id] EXCEPT !.status = "processing"]
      summary_data == generate_summary(summary_reply)
      action_items_data == extract_action_items(action_items_reply)
      emotions_data == analyze_emotions(emotions_reply)
      raises_at == RaisesAt(summary_data, action_items_data, emotions_data,
                            db_fails_at)
      \* a database call raised: the rows the failing step had pending are
      \* rolled back; another exception: the except block's commit writes
      \* the delete the failing step had already issued
      db_raised == raises_at = db_fails_at
  IN
  IF db_fails_at = 1
        \/ (db_fails_at = 2 /\ ~TranscriptNotFound(transcript_result)
                            /\ transcript_result.transcript_text # "")
  THEN /\ response' = Reply("process_meeting", meeting_id, 500,
                            IF db_fails_at = 1 THEN "transcript_error"
                            ELSE "db_error")
       /\ UNCHANGED <<active_emotion_analyzers, emotion_rows, meeting_rows,
                      now, analyzers_created, pipeline>>
  ELSE IF TranscriptNotFound(transcript_result)
  THEN /\ response' = Reply("process_meeting", meeting_id,
                            ProcessMeetingException(404), "no_transcript")
       /\ UNCHANGED <<active_emotion_analyzers, emotion_rows, meeting_rows,
                      now, analyzers_created, pipeline>>
  ELSE IF transcript_result.transcript_text = ""
  THEN /\ response' = Reply("process_meeting", meeting_id,
                            ProcessMeetingException(400), "empty_transcript")
       /\ UNCHANGED <<active_emotion_analyzers, emotion_rows, meeting_rows,
                      now, analyzers_created, pipeline>>
  ELSE IF raises_at # NoStep
  THEN /\ meeting_rows' =
            [meeting_rows EXCEPT ![meeting_id] =
               IF handler_commit_ok THEN HandlerMarksFailed(meeting)
               ELSE meeting]
       /\ summary_rows' =
            IF raises_at > 4
            THEN [summary_rows EXCEPT ![meeting_id] = summary_data.value]
            ELSE summary_rows
       /\ action_item_rows' =
            IF raises_at > 5
            THEN [action_item_rows EXCEPT ![meeting_id] = action_items_data.value]
            ELSE IF raises_at = 5 /\ ~db_raised
            THEN [action_item_rows EXCEPT ![meeting_id] = <<>>]
            ELSE action_item_rows
       /\ emotion_rows' =
            IF raises_at > 7
            THEN [emotion_rows EXCEPT ![meeting_id] = emotions_data.value]
            ELSE IF raises_at = 7 /\ ~db_raised
            THEN [emotion_rows EXCEPT ![meeting_id] = <<>>]
            ELSE emotion_rows
       /\ response' =
            [op |-> "process_meeting", meeting_id |-> meeting_id,
             status_code |-> 500, detail |-> "failed",
             raised_at |-> raises_at]
       /\ UNCHANGED <<active_emotion_analyzers, now, analyzers_created>>
  ELSE /\ meeting_rows' = [meeting_rows EXCEPT ![meeting_id] =
                             MeetingCompleted(meeting)]
       /\ summary_rows' = [summary_rows EXCEPT ![meeting_id] = summary_data.value]
       /\ action_item_rows' =
            [action_item_rows EXCEPT ![meeting_id] = action_items_data.value]
       /\ emotion_rows' = [emotion_rows EXCEPT ![meeting_id] = emotions_data.value]
       /\ response' =
            [op |-> "process_meeting", meeting_id |-> meeting_id,
             status_code |-> 200, detail |-> "processed",
             summary |-> summary_data.value.summary,
             action_items_count |-> Len(action_items_data.value),
             overall_emotion_score |->
               calculate_overall_emotion_score(emotions_data.value)]
       /\ UNCHANGED <<active_emotion_analyzers, now, analyzers_created>>

(***************************************************************************)
(* GET summary.  outcome: "ok", "db_error" (the query raises).             *)
(***************************************************************************)
\* "except HTTPException: raise" of get_meeting_summary
SummaryHTTPException(status_code) == status_code

get_meeting_summary(meeting_id, outcome) ==
  LET summary == summary_rows[meeting_id]
  IN  /\ response' =
           IF outcome = "db_error"
           THEN Reply("get_summary", meeting_id, 500, "db_error")
           ELSE IF summary = NoSummary
           THEN Reply("get_summary", meeting_id, SummaryHTTPException(404),
                      "summary not found")
           ELSE [op |-> "get_summary", meeting_id |-> meeting_id,
                 status_code |-> 200, detail |-> "found",
                 summary |-> summary.summary,
                 key_points |-> summary.key_points,
                 decisions |-> summary.decisions]
      /\ UNCHANGED <<active_emotion_analyzers, emotion_rows, meeting_rows,
                     now, analyzers_created, pipeline>>

(***************************************************************************)
(* GET status.  outcome: "ok", "db_error" (the query raises).              *)
(***************************************************************************)
NotProcessedNever(meeting) == FALSE

\* "if not meeting"
NotProcessed(meeting) == meeting = NoMeeting

get_meeting_status(meeting_id, outcome) ==
  LET meeting == meeting_rows[meeting_id]
  IN  /\ response' =
           IF outcome = "db_error"
           THEN Reply("get_status", meeting_id, 500, "db_error")
           ELSE [op |-> "get_status", meeting_id |-> meeting_id,
                 status_code |-> 200, detail |-> "status",
                 status |-> IF NotProcessed(meeting) THEN "not_processed"
                            ELSE meeting.status]
      /\ UNCHANGED <<active_emotion_analyzers, emotion_rows, meeting_rows,
                     now, analyzers_created, pipeline>>

(***************************************************************************)
(* GET emotion-analysis-status                                             *)
(***************************************************************************)
get_emotion_analysis_status(meeting_id) ==
  LET analyzer_data == active_emotion_analyzers[meeting_id]
  IN  /\ response' =
           IF analyzer_data = NoSession
           THEN [op |-> "status", meeting_id |-> meeting_id, status_code |-> 200,
                 detail |-> "not running", is_running |-> FALSE]
           ELSE [op |-> "status", meeting_id |-> meeting_id, status_code |-> 200,
                 detail |-> "running", is_running |-> TRUE,
                 start_time |-> analyzer_data.start_time,
                 elapsed_time_seconds |-> now - analyzer_data.start_time,
                 frames_processed |-> analyzer_data.frames_processed]
      /\ UNCHANGED <<active_emotion_analyzers, emotion_rows, meeting_rows,
                     now, analyzers_created>>

StartRequest ==
  /\ \E meeting_id \in RequestIds, platform \in Platforms,
        outcome \in {"ok", "analyzer_error", "db_error"} :
       start_emotion_analysis(meeting_id, platform, outcome)
  /\ UNCHANGED <<call, pipeline, temp_files, loop>>

FrameRequest ==
  /\ \E meeting_id \in RequestIds, outcome \in {"ok", "frame_error", "db_error"},
        frame_results \in FrameResults :
       process_emotion_frame(meeting_id, outcome, frame_results)
  /\ UNCHANGED <<call, pipeline, temp_files, loop>>

StopRequest ==
  /\ \E meeting_id \in RequestIds, outcome \in {"ok", "summary_error", "db_error"},
        analyzer_summary \in Summaries :
       stop_emotion_analysis(meeting_id, outcome, analyzer_summary)
  /\ UNCHANGED <<call, pipeline, temp_files, loop>>

StatusRequest ==
  /\ \E meeting_id \in RequestIds : get_emotion_analysis_status(meeting_id)
  /\ UNCHANGED <<call, pipeline, temp_files, loop>>

\* the uploads: no content type, a text, a video; sizes in MB
ContentTypes == { NoContentType, <<"text", "plain">>, <<"video", "mp4">> }
FileSizes == { 1, MaxUploadMB, MaxUploadMB + 1 }

VideoStep(meeting_id, outcomes) ==
  \E content_type \in ContentTypes, file_size \in FileSizes,
     outcome \in outcomes,
     analyzer_summary \in VideoSummaries \cup {AnalyzerSummary(0, <<>>, <<>>)} :
    /\ (NotVideo(content_type) \/ TooLarge(file_size) \/ outcome # "ok")
          => analyzer_summary = AnalyzerSummary(0, <<>>, <<>>)
    /\ NotVideo(content_type) => (file_size = 1 /\ outcome = "ok")
    /\ analyze_video_emotions(meeting_id, content_type, file_size, outcome,
                              analyzer_summary)

\* the batch request among the requests of the live analysis: the upload
\* is read and written without error
VideoRequest ==
  /\ \E meeting_id \in RequestIds \cup {NoMeetingId} :
       VideoStep(meeting_id, {"ok", "analysis_error", "db_error"})
  /\ UNCHANGED <<call, pipeline, loop>>

VideoOutcomes ==
  {"ok", "stream_error", "write_error", "analysis_error", "db_error",
   "unlink_error"}

VideoUploadRequest ==
  /\ \E meeting_id \in RequestIds \cup {NoMeetingId} :
       VideoStep(meeting_id, VideoOutcomes)
  /\ UNCHANGED <<call, pipeline, loop>>

\* the inputs of a transcript run: every combination of replies of the
\* generative model on a transcript that is there, the transcripts that are
\* not, and a database failure at each step of a run whose replies are good
GoodReplies ==
  [summary_reply |-> Text(<<FenceJson, JsonDoc("dict", GoodSummary), Fence>>),
   action_items_reply |-> Text(<<Fence, JsonDoc("list", GoodActionItems), Fence>>),
   emotions_reply |-> Text(<<JsonDoc("list", GoodEmotions)>>)]

GoodTranscript ==
  [empty |-> FALSE, has_transcript |-> TRUE, transcript_text |-> "Ana: hello"]

ProcessInputs ==
  { [transcript_result |-> GoodTranscript, summary_reply |-> s,
     action_items_reply |-> a, emotions_reply |-> e,
     db_fails_at |-> NoStep, handler_commit_ok |-> TRUE] :
       s \in SummaryReplies, a \in ActionItemReplies, e \in EmotionReplies }
  \cup
  { [transcript_result |-> t, summary_reply |-> GoodReplies.summary_reply,
     action_items_reply |-> GoodReplies.action_items_reply,
     emotions_reply |-> GoodReplies.emotions_reply,
     db_fails_at |-> NoStep, handler_commit_ok |-> TRUE] :
       t \in TranscriptResults }
  \cup
  { [transcript_result |-> GoodTranscript,
     summary_reply |-> GoodReplies.summary_reply,
     action_items_reply |-> GoodReplies.action_items_reply,
     emotions_reply |-> GoodReplies.emotions_reply,
     db_fails_at |-> k, handler_commit_ok |-> c] :
       k \in (1..LastStep) \ {8}, c \in BOOLEAN }

ProcessStep(meeting_id) ==
  \E platform \in Platforms, in \in ProcessInputs :
    process_meeting(meeting_id, platform, in.transcript_result,
                    in.summary_reply, in.action_items_reply,
                    in.emotions_reply, in.db_fails_at, in.handler_commit_ok)

ProcessRequest ==
  /\ \E meeting_id \in RequestIds : ProcessStep(meeting_id)
  /\ UNCHANGED <<call, temp_files, loop>>

SummaryRequest ==
  /\ \E meeting_id \in RequestIds, outcome \in {"ok", "db_error"} :
       get_meeting_summary(meeting_id, outcome)
  /\ UNCHANGED <<call, temp_files, loop>>

MeetingStatusRequest ==
  /\ \E meeting_id \in RequestIds, outcome \in {"ok", "db_error"} :
       get_meeting_status(meeting_id, outcome)
  /\ UNCHANGED <<call, temp_files, loop>>

Next ==
  \/ Tick
  \/ StartRequest
  \/ FrameRequest
  \/ StopRequest
  \/ StatusRequest
  \/ VideoRequest

Spec == Init /\ [][Next]_vars

(***************************************************************************)
(* The transcript run together with the requests that write or read the    *)
(* Meeting row: start and stop of the live analysis, the two GET requests. *)
(***************************************************************************)
PipelineNext ==
  \/ ProcessRequest
  \/ SummaryRequest
  \/ MeetingStatusRequest
  \/ StartRequest
  \/ StopRequest

PipelineSpec == Init /\ [][PipelineNext]_vars

(***************************************************************************)
(* The batch video analysis with every failure of its upload handling,     *)
(* together with start and stop of the live analysis, the other writer of  *)
(* the emotion rows that works from an analyzer summary.                   *)
(***************************************************************************)
VideoNext ==
  \/ VideoUploadRequest
  \/ StartRequest
  \/ StopRequest

VideoSpec == Init /\ [][VideoNext]_vars

(***************************************************************************)
(* Specifications of the two scoring functions, called directly on inputs  *)
(* drawn by the initial state.                                             *)
(***************************************************************************)
service == <<active_emotion_analyzers, emotion_rows, meeting_rows, now,
             analyzers_created, response, pipeline, temp_files, loop>>

DistributionLabels == {"happy", "Happy", "sad", "Angry", "bored"}
DistributionCounts == {0, 1, 3}

\* the items of a dict: sequences of [emotion, count] with distinct keys
Distributions ==
  UNION { { d \in [1..n -> [emotion : DistributionLabels, count : DistributionCounts]] :
              \A i, j \in 1..n : i # j => d[i].emotion # d[j].emotion } :
          n \in 0..MaxDistribution }

ScoreInit ==
  /\ ServiceInit
  /\ call \in {[fn |-> "pending", arg |-> d] : d \in Distributions}

CallStopEngagementScore ==
  /\ call' = [fn |-> "stop_engagement_score", arg |-> call.arg,
              ret |-> StopEngagementScore(call.arg)]
  /\ UNCHANGED service

CallBatchEngagementScore ==
  /\ call' = [fn |-> "batch_engagement_score", arg |-> call.arg,
              ret |-> BatchEngagementScore(call.arg)]
  /\ UNCHANGED service

ScoreNext ==
  \/ CallStopEngagementScore
  \/ CallBatchEngagementScore

ScoreSpec == ScoreInit /\ [][ScoreNext]_vars

EntryEmotions == {"happy", "neutral", "concerned", "frustrated", "Happy"}
EntryIntensities == {0, 50, 100, MissingIntensity}

EmotionLists ==
  UNION { [1..n -> [emotion : EntryEmotions, intensity : EntryIntensities]] :
          n \in 0..MaxEntries }

IntensityInit ==
  /\ ServiceInit
  /\ call \in {[fn |-> "pending", arg |-> e] : e \in EmotionLists}

CallIntensityScore ==
  /\ call' = [fn |-> "calculate_overall_emotion_score", arg |-> call.arg,
              ret |-> calculate_overall_emotion_score(call.arg)]
  /\ UNCHANGED service

IntensityNext == CallIntensityScore

IntensitySpec == IntensityInit /\ [][IntensityNext]_vars

(***************************************************************************)
(* Properties                                                              *)
(***************************************************************************)
StartStep(m) ==
  \E platform \in Platforms, outcome \in {"ok", "analyzer_error", "db_error"} :
    start_emotion_analysis(m, platform, outcome)

FrameStep(m) ==
  \E outcome \in {"ok", "frame_error", "db_error"}, frame_results \in FrameResults :
    process_emotion_frame(m, outcome, frame_results)

StopStep(m) ==
  \E outcome \in {"ok", "summary_error", "db_error"}, analyzer_summary \in Summaries :
    stop_emotion_analysis(m, outcome, analyzer_summary)

Running(m) == active_emotion_analyzers[m] # NoSession

\* C1: a start for a meeting id that already has a Running session returns
\* success (200) and leaves the session in the live mapping as it was: same
\* analyzer, same start_time, same frames_processed (and the rest of the
\* state with it).
C1_StartIsIdempotent ==
  [][\A m \in Meetings :
       (Running(m) /\ StartStep(m)) =>
          /\ response'.status_code = 200
          /\ active_emotion_analyzers'[m] = active_emotion_analyzers[m]
          /\ active_emotion_analyzers'[m].frames_processed
               = active_emotion_analyzers[m].frames_processed
          /\ UNCHANGED <<emotion_rows, meeting_rows, analyzers_created>>]_vars

\* a repeated start has just been answered for a session that has already
\* processed frames
C1_Witness ==
  /\ response.op = "start"
  /\ response.status_code = 200
  /\ response.detail = "already running"
  /\ Running(response.meeting_id)
  /\ active_emotion_analyzers[response.meeting_id].frames_processed >= 2

\* C2: a process_frame for a meeting id without a session in the live mapping
\* is answered 400 and changes nothing: no counter, no emotion row, no
\* session.
C2_FrameWithoutSessionRejected ==
  [][\A m \in Meetings :
       (~Running(m) /\ FrameStep(m)) =>
          /\ response'.op = "process_frame"
          /\ response'.status_code = 400
          /\ UNCHANGED <<active_emotion_analyzers, emotion_rows, meeting_rows>>]_vars

\* a frame was rejected for a meeting whose session had been stopped before
C2_Witness ==
  /\ response.op = "process_frame"
  /\ response.status_code = 400
  /\ ~Running(response.meeting_id)
  /\ meeting_rows[response.meeting_id].status = "completed"
  /\ analyzers_created >= 1

\* C3: a stop for a meeting id without a Running session is answered 400,
\* never success, and leaves the emotion rows, the Meeting row and the live
\* mapping unchanged.
C3_StopWithoutSessionRejected ==
  [][\A m \in Meetings :
       (~Running(m) /\ StopStep(m)) =>
          /\ response'.op = "stop"
          /\ response'.status_code = 400
          /\ UNCHANGED <<active_emotion_analyzers, emotion_rows, meeting_rows>>]_vars

\* a stop was rejected for a meeting that a successful stop had completed and
\* that still has its emotion rows
C3_Witness ==
  /\ response.op = "stop"
  /\ response.status_code = 400
  /\ meeting_rows[response.meeting_id].status = "completed"
  /\ emotion_rows[response.meeting_id] # <<>>

\* C4: a successful stop removes the session from the live mapping, and a
\* start that then finds no session stores a fresh one: an analyzer not
\* built before, start_time the time of the start, frames_processed 0 and
\* no last save time.
C4_StopRemovesStartIsFresh ==
  [][\A m \in Meetings :
       /\ (StopStep(m) /\ response'.status_code = 200) => ~Running(m)'
       /\ (StartStep(m) /\ ~Running(m) /\ Running(m)') =>
             /\ active_emotion_analyzers'[m].analyzer \notin 0..analyzers_created
             /\ active_emotion_analyzers'[m].start_time = now
             /\ active_emotion_analyzers'[m].frames_processed = 0
             /\ active_emotion_analyzers'[m].last_save_time = NoTime]_vars

\* a second session of the same meeting has just been started, later than
\* the first, after a stop that completed the meeting
C4_Witness ==
  /\ response.op = "start"
  /\ response.detail = "started"
  /\ active_emotion_analyzers[response.meeting_id].analyzer = 2
  /\ active_emotion_analyzers[response.meeting_id].start_time > 0
  /\ active_emotion_analyzers[response.meeting_id].frames_processed = 0
  /\ emotion_rows[response.meeting_id] # <<>>

\* C5: after a successful stop the committed emotion rows of the meeting are
\* exactly the entries (timestamp, emotion, intensity) of the timeline the
\* stop returned, in the same order; nothing written before remains.
C5_RowsAreTheReturnedTimeline ==
  (response.op = "stop" /\ response.status_code = 200) =>
     emotion_rows[response.meeting_id] = response.timeline

\* a stop returned a timeline of two points for a session that had run its
\* periodic save
C5_Witness ==
  /\ response.op = "stop"
  /\ response.status_code = 200
  /\ Len(response.timeline) = 2
  /\ response.frames_processed >= FlushEveryFrames

FinalSummary ==
  response.op \in {"stop", "analyze_video"} /\ response.status_code = 200

\* C6: every person in the people list of a final summary (stop or batch)
\* has total_frames >= 30 and total_duration >= max(0.05 * meeting_duration,
\* 3.0) seconds, whatever meeting_duration the analyzer reported.
C6_SurvivorsMeetBothBounds ==
  FinalSummary =>
    \A k \in 1..Len(response.people) :
      /\ response.people[k].total_frames >= 30
      /\ 100 * response.people[k].total_duration
           >= Max(5 * response.meeting_duration, 300)

\* C7: in a final summary (stop or batch) the person ids are exactly 1..K in
\* list order, the names are "Person k", and total_people_active is K.
C7_PeopleAreNumberedFromOne ==
  FinalSummary =>
    /\ response.total_people_active = Len(response.people)
    /\ \A k \in 1..Len(response.people) :
         /\ response.people[k].person_id = k
         /\ response.people[k].person_name = <<"Person", k>>

\* C10: a successful process_frame of a Running session runs the periodic
\* save when its frame counter has just reached a multiple of 10, or when 5
\* or more seconds have passed since the session's last save time.
C10_FlushOnTenthFrameOrFiveSeconds ==
  [][\A m \in Meetings :
       (Running(m) /\ FrameStep(m) /\ response'.status_code = 200) =>
          LET session == active_emotion_analyzers[m]
          IN  ( \/ (session.frames_processed + 1) % 10 = 0
                \/ /\ session.last_save_time # NoTime
                   /\ now - session.last_save_time >= 5 )
              => response'.saved]_vars

DistributionScored ==
  call.fn \in {"stop_engagement_score", "batch_engagement_score"}

\* the weight table of the claim, in tenths, on lower-cased labels
C8_Weight10(label) ==
  CASE label \in {"happy", "Happy"} -> 9
    [] label = "neutral" -> 6
    [] label \in {"sad", "fear"} -> 3
    [] label \in {"angry", "Angry", "disgust"} -> 2
    [] label = "surprise" -> 7
    [] OTHER -> 5

RECURSIVE C8_WeightedSum(_)
C8_WeightedSum(d) ==
  IF d = <<>> THEN 0
  ELSE C8_Weight10(Head(d).emotion) * Head(d).count + C8_WeightedSum(Tail(d))

RECURSIVE C8_CountSum(_)
C8_CountSum(d) ==
  IF d = <<>> THEN 0 ELSE Head(d).count + C8_CountSum(Tail(d))

\* C8: the distribution-weighted engagement score is (sum of weight * count
\* / sum of count) * 10 with the weights of the table, lies in [0, 10], and
\* is exactly 5.0 when the distribution is empty or its counts sum to 0.
C8_DistributionScoreInRange ==
  DistributionScored =>
    /\ call.ret.den > 0
    /\ 0 <= call.ret.num
    /\ call.ret.num <= 10 * call.ret.den
    /\ C8_CountSum(call.arg) = 0 => call.ret.num = 5 * call.ret.den
    /\ C8_CountSum(call.arg) > 0 =>
         call.ret.num * C8_CountSum(call.arg)
           = C8_WeightedSum(call.arg) * call.ret.den

\* the score of a distribution of two labels, one in upper case, and the
\* score of a non-empty distribution whose counts are all 0
C8_Witness ==
  /\ DistributionScored
  /\ Len(call.arg) = 2
  /\ call.arg[1].emotion = "Happy"
  /\ \/ call.arg[1].count > 0 /\ call.arg[2].count > 0
     \/ call.arg[1].count = 0 /\ call.arg[2].count = 0

IntensityScored == call.fn = "calculate_overall_emotion_score"

\* the table of the claim
C9_Table(emotion) ==
  CASE emotion = "happy" -> 9
    [] emotion = "neutral" -> 7
    [] emotion = "concerned" -> 5
    [] emotion = "frustrated" -> 3
    [] OTHER -> 7

C9_Intensity(entry) ==
  IF entry.intensity = MissingIntensity THEN 50 ELSE entry.intensity

RECURSIVE C9_WeightedSum(_)
C9_WeightedSum(e) ==
  IF e = <<>> THEN 0
  ELSE C9_Table(Head(e).emotion) * C9_Intensity(Head(e)) + C9_WeightedSum(Tail(e))

RECURSIVE C9_WeightSum(_)
C9_WeightSum(e) ==
  IF e = <<>> THEN 0 ELSE C9_Intensity(Head(e)) + C9_WeightSum(Tail(e))

C9_Defaults ==
  /\ (call.arg = <<>> \/ C9_WeightSum(call.arg) = 0) => call.ret = 70
  /\ call.arg = <<[emotion |-> "happy", intensity |-> 100]>> => call.ret = 90
  /\ call.ret \in 0..100

\* C9 as stated: the intensity-weighted scorer returns 7.0 for an empty list
\* and for intensities summing to 0, 9.0 for a single happy entry of
\* intensity 1.0, and otherwise exactly the intensity-weighted mean of the
\* table values, within 0.0 .. 10.0.
C9_ReturnsExactMean ==
  IntensityScored =>
    /\ C9_Defaults
    /\ C9_WeightSum(call.arg) > 0 =>
         call.ret * C9_WeightSum(call.arg) = 10 * C9_WeightedSum(call.arg)

\* C9 amended: as above, but the value returned is the intensity-weighted
\* mean rounded to one decimal place (at most 0.05 away from the mean).
C9_ReturnsMeanRoundedToOneDecimal ==
  IntensityScored =>
    /\ C9_Defaults
    /\ C9_WeightSum(call.arg) > 0 =>
         LET diff == call.ret * C9_WeightSum(call.arg) - 10 * C9_WeightedSum(call.arg)
         IN  /\ 2 * diff <= C9_WeightSum(call.arg)
             /\ -2 * diff <= C9_WeightSum(call.arg)

\* a list of two entries whose mean is not a whole number of tenths
C9_Witness ==
  /\ IntensityScored
  /\ Len(call.arg) = 2
  /\ C9_WeightSum(call.arg) > 0
  /\ call.ret * C9_WeightSum(call.arg) # 10 * C9_WeightedSum(call.arg)

\* C11: every save cycle replaces the meeting's emotion rows wholesale: right
\* after a process_frame that ran the periodic save, the committed rows of
\* the meeting are exactly the records written by that save (and right after
\* a successful stop, exactly the timeline written by the stop).
C11_SaveCycleReplacesRows ==
  [][\A m \in Meetings :
       /\ (Running(m) /\ FrameStep(m) /\ response'.status_code = 200
             /\ response'.saved) =>
            emotion_rows'[m] =
              FrameRecords(response'.frame_results,
                           now - active_emotion_analyzers[m].start_time)
       /\ (Running(m) /\ StopStep(m) /\ response'.status_code = 200) =>
            emotion_rows'[m] = response'.timeline]_vars

\* C12: after every successful stop the Meeting row of the meeting has status
\* completed and its duration is the analyzed meeting duration in whole
\* minutes, floor(seconds / 60), for every meeting duration, 0 and durations
\* under one minute included.
C12_StopSetsCompletedAndMinutes ==
  (response.op = "stop" /\ response.status_code = 200) =>
     /\ meeting_rows[response.meeting_id] # NoMeeting
     /\ meeting_rows[response.meeting_id].status = "completed"
     /\ meeting_rows[response.meeting_id].duration
          = response.meeting_duration \div 60

\* C13: a start answered with success that stores a new session leaves a
\* Meeting row with status active: created when there was none, and with
\* only its status overwritten when there was one, whatever that status was;
\* a start that finds the session Running leaves the Meeting rows untouched.
C13_StartSetsMeetingActive ==
  [][\A m \in Meetings :
       (StartStep(m) /\ response'.status_code = 200) =>
          IF Running(m)
          THEN UNCHANGED meeting_rows
          ELSE /\ Running(m)'
               /\ meeting_rows'[m] # NoMeeting
               /\ meeting_rows'[m].status = "active"
               /\ meeting_rows[m] # NoMeeting =>
                    /\ meeting_rows'[m].duration = meeting_rows[m].duration
                    /\ meeting_rows'[m].platform = meeting_rows[m].platform
               /\ \A o \in Meetings \ {m} : meeting_rows'[o] = meeting_rows[o]]_vars

\* a new session has just been started for a meeting whose row an earlier
\* stop had completed with a duration of one minute
C13_Witness ==
  /\ response.op = "start"
  /\ response.detail = "started"
  /\ Running(response.meeting_id)
  /\ meeting_rows[response.meeting_id].status = "active"
  /\ meeting_rows[response.meeting_id].duration = 1

SummaryStep(m) ==
  \E outcome \in {"ok", "db_error"} : get_meeting_summary(m, outcome)

MeetingStatusStep(m) ==
  \E outcome \in {"ok", "db_error"} : get_meeting_status(m, outcome)

\* a transcript run of meeting m whose transcript result is empty or has no
\* transcript, the fetch itself not failing
ProcessStepNotFound(m) ==
  \E platform \in Platforms, in \in ProcessInputs :
    /\ TranscriptNotFound(in.transcript_result)
    /\ in.db_fails_at = NoStep
    /\ process_meeting(m, platform, in.transcript_result, in.summary_reply,
                       in.action_items_reply, in.emotions_reply,
                       in.db_fails_at, in.handler_commit_ok)

\* C14: every not-found condition is answered 404: get_meeting_summary when
\* no summary row is stored for the meeting (the query not failing), and
\* process_meeting when the transcript result is empty or has no transcript;
\* neither is answered 500.
C14_NotFoundIs404 ==
  [][\A m \in Meetings :
       /\ (get_meeting_summary(m, "ok") /\ summary_rows[m] = NoSummary) =>
            response'.status_code = 404
       /\ ProcessStepNotFound(m) => response'.status_code = 404]_vars

\* C15: a process_meeting run that has set the meeting's status to
\* processing (it went past step 2) ends with that status at completed when
\* it returns success, and at failed when it returns an error; no run
\* returns leaving the status it set at processing.
C15_ProcessingEndsCompletedOrFailed ==
  [][\A m \in Meetings :
       (ProcessStep(m) /\ response'.detail \in {"processed", "failed"}) =>
          /\ meeting_rows'[m].status \in {"completed", "failed"}
          /\ response'.status_code = 200 => meeting_rows'[m].status = "completed"
          /\ response'.status_code # 200 => meeting_rows'[m].status = "failed"]_vars

\* the summary the claim calls the safe default
C16_EmptySummary == [summary |-> "", key_points |-> <<>>, decisions |-> <<>>]

\* the inputs of a transcript run in which at least one call of the
\* generative model fails or gives a reply that cannot be parsed, the other
\* replies being good ones and no database call failing
C16_FailedReplyInputs ==
  { in \in ProcessInputs :
      /\ in.transcript_result = GoodTranscript
      /\ in.db_fails_at = NoStep
      /\ ReplyRaises(in.summary_reply)
           \/ in.summary_reply = GoodReplies.summary_reply
      /\ ReplyRaises(in.action_items_reply)
           \/ in.action_items_reply = GoodReplies.action_items_reply
      /\ ReplyRaises(in.emotions_reply)
           \/ in.emotions_reply = GoodReplies.emotions_reply
      /\ \/ ReplyRaises(in.summary_reply)
         \/ ReplyRaises(in.action_items_reply)
         \/ ReplyRaises(in.emotions_reply) }

C16_Run(m, in) ==
  \E platform \in Platforms :
    process_meeting(m, platform, in.transcript_result, in.summary_reply,
                    in.action_items_reply, in.emotions_reply,
                    in.db_fails_at, in.handler_commit_ok)

\* C16 as stated: when a call of the generative model fails or its reply
\* cannot be parsed, generate_summary gives an empty summary with empty
\* key_points and decisions, extract_action_items and analyze_emotions give
\* an empty list, none raises, and process_meeting stores these defaults,
\* goes on through the remaining steps and ends with success and status
\* completed.
C16_FailedRepliesGiveEmptyDefaults ==
  [][\A m \in RequestIds :
       response'.op = "process_meeting" =>
         \A in \in C16_FailedReplyInputs :
           C16_Run(m, in) =>
              /\ response'.status_code = 200
              /\ meeting_rows'[m].status = "completed"
              /\ ReplyRaises(in.summary_reply) =>
                   summary_rows'[m] = C16_EmptySummary
              /\ ReplyRaises(in.action_items_reply) => action_item_rows'[m] = <<>>
              /\ ReplyRaises(in.emotions_reply) => emotion_rows'[m] = <<>>]_vars

\* C16 amended: as above, but the default of generate_summary is the summary
\* text "Failed to generate summary" with empty key_points and decisions.
C16_FailedRepliesGiveDefaults ==
  [][\A m \in RequestIds :
       response'.op = "process_meeting" =>
         \A in \in C16_FailedReplyInputs :
           C16_Run(m, in) =>
              /\ response'.status_code = 200
              /\ meeting_rows'[m].status = "completed"
              /\ ReplyRaises(in.summary_reply) =>
                   summary_rows'[m] =
                     [summary |-> "Failed to generate summary",
                      key_points |-> <<>>, decisions |-> <<>>]
              /\ ReplyRaises(in.action_items_reply) => action_item_rows'[m] = <<>>
              /\ ReplyRaises(in.emotions_reply) => emotion_rows'[m] = <<>>]_vars

\* a run whose three calls of the generative model all failed has just
\* completed a meeting, leaving the default summary and no action item and
\* no emotion row
C16_Witness ==
  /\ response.op = "process_meeting"
  /\ response.status_code = 200
  /\ response.summary = "Failed to generate summary"
  /\ response.action_items_count = 0
  /\ meeting_rows[response.meeting_id].status = "completed"
  /\ summary_rows[response.meeting_id].key_points = <<>>
  /\ action_item_rows[response.meeting_id] = <<>>
  /\ emotion_rows[response.meeting_id] = <<>>

VideoIds == RequestIds \cup {NoMeetingId}

\* C17: whenever analyze_video_emotions returns, with success or with any
\* error, the temporary file it created for the upload is gone: no request
\* adds to the temporary files left on disk.
C17_TempFileAlwaysRemoved ==
  [][\A m \in VideoIds :
       VideoStep(m, VideoOutcomes) => temp_files' = temp_files]_vars

\* a batch request with this upload, read without error
C18_Upload(m, content_type, file_size) ==
  \E outcome \in VideoOutcomes \ {"stream_error"},
     analyzer_summary \in VideoSummaries \cup {AnalyzerSummary(0, <<>>, <<>>)} :
    analyze_video_emotions(m, content_type, file_size, outcome, analyzer_summary)

C19_StoredStatusesAndNotProcessed ==
  /\ \A m \in Meetings :
       meeting_rows[m] # NoMeeting =>
         meeting_rows[m].status \in {"active", "processing", "completed", "failed"}
  /\ (response.op = "get_status" /\ response.status_code = 200) =>
        /\ response.status = "not_processed"
             <=> meeting_rows[response.meeting_id] = NoMeeting
        /\ meeting_rows[response.meeting_id] # NoMeeting =>
             response.status = meeting_rows[response.meeting_id].status

\* the status of a meeting has just been reported as not_processed while
\* its session is Running (the start stored the session and then failed to
\* write the Meeting row)
C19_Witness ==
  /\ response.op = "get_status"
  /\ response.status_code = 200
  /\ response.status = "not_processed"
  /\ Running(response.meeting_id)

(***************************************************************************)
(* The four handlers that take emotion_analysis_lock, as coroutines of the *)
(* one event loop thread.  Each handler is an "async def" whose body is    *)
(* "with emotion_analysis_lock:".  start, stop and status have no await    *)
(* inside the with block: once the lock is taken the block runs to its end *)
(* and releases the lock within one step of the loop.  process_emotion_    *)
(* frame awaits file.read() inside the block, after it has read its        *)
(* session from the mapping: the read either returns at once or suspends   *)
(* the coroutine, which then keeps the lock while the loop runs other      *)
(* coroutines.  emotion_analysis_lock is a threading.Lock: taking it while *)
(* it is held blocks the calling thread, here the loop itself.             *)
(***************************************************************************)
\* lock.acquire() of the event loop thread has not returned
LoopBlocked == \E c \in Coroutines : coroutines[c].pc = "blocked"

LockAcquirableReentrant(holder) == TRUE

\* threading.Lock(): acquire returns only when nobody holds the lock
LockAcquirable(holder) == holder = NoCoroutine

Ready(c) == ~LoopBlocked /\ coroutines[c].pc = "idle"

\* what the handlers other than the one running leave alone
tables == <<active_emotion_analyzers, emotion_rows, meeting_rows, now,
            analyzers_created, response, pipeline, temp_files, call>>

\* "with emotion_analysis_lock:" entered while the lock is held
BlockOnLock(c, op) ==
  /\ coroutines' = [coroutines EXCEPT ![c] = [pc |-> "blocked", op |-> op]]
  /\ UNCHANGED <<tables, lock_holder>>

RunStart(c) ==
  /\ Ready(c)
  /\ IF LockAcquirable(lock_holder)
     THEN /\ \E meeting_id \in RequestIds : StartStep(meeting_id)
          /\ UNCHANGED <<call, pipeline, temp_files, loop>>
     ELSE BlockOnLock(c, "start")

RunStop(c) ==
  /\ Ready(c)
  /\ IF LockAcquirable(lock_holder)
     THEN /\ \E meeting_id \in RequestIds : StopStep(meeting_id)
          /\ UNCHANGED <<call, pipeline, temp_files, loop>>
     ELSE BlockOnLock(c, "stop")

RunStatus(c) ==
  /\ Ready(c)
  /\ IF LockAcquirable(lock_holder)
     THEN /\ \E meeting_id \in RequestIds : get_emotion_analysis_status(meeting_id)
          /\ UNCHANGED <<call, pipeline, temp_files, loop>>
     ELSE BlockOnLock(c, "status")

\* process_emotion_frame up to "content = await file.read()": the lock is
\* taken, the session is looked up and analyzer_data is bound to its dict;
\* without a session, or when the read returns at once, the handler runs to
\* its end
RunFrame(c) ==
  /\ Ready(c)
  /\ IF LockAcquirable(lock_holder)
     THEN \E meeting_id \in RequestIds :
            \/ /\ FrameStep(meeting_id)
               /\ UNCHANGED <<call, pipeline, temp_files, loop>>
            \/ /\ Running(meeting_id)
               /\ lock_holder' = c
               /\ coroutines' =
                    [coroutines EXCEPT ![c] =
                       [pc |-> "reading", op |-> "process_frame",
                        meeting_id |-> meeting_id,
                        analyzer_data |-> active_emotion_analyzers[meeting_id]]]
               /\ UNCHANGED tables
     ELSE BlockOnLock(c, "process_frame")

\* the rest of process_emotion_frame on a dict that is no longer the one in
\* the mapping: the counter of that dict is raised, and the periodic save
\* writes the rows of the meeting id
FrameOnDetachedDict(meeting_id, analyzer_data, outcome, frame_results) ==
  LET frames_processed == analyzer_data.frames_processed + 1
      save == frames_processed % FlushEveryFrames = 0
  IN  /\ outcome = "db_error" => save
      /\ IF save /\ outcome = "ok"
         THEN /\ Len(emotion_rows[meeting_id]) + Len(frame_results) <= MaxEmotions
              /\ emotion_rows' =
                   [emotion_rows EXCEPT ![meeting_id] =
                      @ \o FrameRecords(frame_results, now - analyzer_data.start_time)]
         ELSE emotion_rows' = emotion_rows
      /\ response' =
           IF outcome # "ok"
           THEN Reply("process_frame", meeting_id, 500, "failed to process frame")
           ELSE [op |-> "process_frame", meeting_id |-> meeting_id,
                 status_code |-> 200, detail |-> "processed",
                 frame_results |-> frame_results, saved |-> save]
      /\ UNCHANGED <<active_emotion_analyzers, meeting_rows, now, analyzers_created>>

\* the dict analyzer_data refers to is the one the mapping holds
StillMapped(meeting_id, analyzer_data) ==
  /\ Running(meeting_id)
  /\ active_emotion_analyzers[meeting_id].analyzer = analyzer_data.analyzer

\* process_emotion_frame from the return of file.read() to the end of the
\* with block
ResumeFrame(c) ==
  /\ ~LoopBlocked
  /\ coroutines[c].pc = "reading"
  /\ LET meeting_id == coroutines[c].meeting_id
         analyzer_data == coroutines[c].analyzer_data
     IN  \E outcome \in {"ok", "frame_error", "db_error"},
            frame_results \in FrameResults :
           IF StillMapped(meeting_id, analyzer_data)
           THEN process_emotion_frame(meeting_id, outcome, frame_results)
           ELSE FrameOnDetachedDict(meeting_id, analyzer_data, outcome,
                                    frame_results)
  /\ lock_holder' = NoCoroutine
  /\ coroutines' = [coroutines EXCEPT ![c] = IdleCoroutine]
  /\ UNCHANGED <<call, pipeline, temp_files>>

LoopNext ==
  \E c \in Coroutines :
    \/ RunStart(c)
    \/ RunFrame(c)
    \/ ResumeFrame(c)
    \/ RunStop(c)
    \/ RunStatus(c)

LoopSpec == Init /\ [][LoopNext]_vars

\* the coroutine is inside the with block of process_emotion_frame, between
\* the lookup of its session and the update of it
Reading(c) == coroutines[c].pc = "reading"

C20_LockHeldByTheReader ==
  /\ \A c, d \in Coroutines : (Reading(c) /\ Reading(d)) => c = d
  /\ \A c \in Coroutines : lock_holder = c <=> Reading(c)

\* C20: the critical sections of start, process_frame, stop and status
\* exclude each other: at most one coroutine is inside one, it holds the
\* lock, and while a process_frame stays between its session lookup and its
\* update no other request changes the live mapping or a table; so when the
\* process_frame goes on to raise frames_processed or to flush, the dict it
\* read is still the one in the live mapping, unchanged since the lookup,
\* and the update lands on it.
C20_NoRequestBetweenCheckAndUpdate ==
  [][/\ C20_LockHeldByTheReader /\ C20_LockHeldByTheReader'
     /\ \A c \in Coroutines :
          /\ (Reading(c) /\ Reading(c)') =>
               UNCHANGED <<active_emotion_analyzers, emotion_rows, meeting_rows>>
          /\ ResumeFrame(c) =>
               \A m \in Meetings, n \in 0..MaxFrames :
                 (m = coroutines[c].meeting_id
                    /\ n = coroutines[c].analyzer_data.frames_processed) =>
                   /\ StillMapped(m, coroutines[c].analyzer_data)
                   /\ active_emotion_analyzers[m] = coroutines[c].analyzer_data
                   /\ Running(m)'
                   /\ active_emotion_analyzers'[m].analyzer
                        = active_emotion_analyzers[m].analyzer
                   /\ response'.status_code = 200 =>
                        active_emotion_analyzers'[m].frames_processed = n + 1]_vars

\* a process_frame whose update will run the periodic save is suspended at
\* its read, and a stop that arrived meanwhile is held at the lock
C20_Witness ==
  \E c, d \in Coroutines :
    /\ Reading(c)
    /\ coroutines[c].analyzer_data.frames_processed = FlushEveryFrames - 1
    /\ coroutines[d].pc = "blocked"
    /\ coroutines[d].op = "stop"
    /\ Running(coroutines[c].meeting_id)

(***************************************************************************)
(* The event loop under fair scheduling: a coroutine whose awaited read    *)
(* has completed is resumed as soon as the loop thread runs, that is,      *)
(* whenever the thread is not inside lock.acquire().  Requests arrive when *)
(* the clients send them; nothing obliges a client to send one.            *)
(***************************************************************************)
LoopFairness == \A c \in Coroutines : WF_vars(ResumeFrame(c))

LoopFairSpec == LoopSpec /\ LoopFairness

\* the request of the coroutine has not returned yet
InFlight(c) == coroutines[c].pc # "idle"

\* C21: under fair scheduling every start, process_frame, stop and status
\* request that has entered its handler eventually returns: a coroutine
\* that waits for the lock, or that is suspended at the read of the frame,
\* is back to idle sooner or later.
C21_EveryRequestReturns ==
  \A c \in Coroutines : InFlight(c) ~> ~InFlight(c)

(***************************************************************************)
(* Every request that can run while a session is live, and the clock: the  *)
(* requests of the live analysis, the batch video analysis and the         *)
(* transcript run.                                                         *)
(***************************************************************************)
\* transcript runs next to a live session: the run that completes, the runs
\* without a transcript, and a run that fails after the Meeting row was set
\* to processing
ServiceProcessInputs ==
  { in \in ProcessInputs :
      /\ in.summary_reply = GoodReplies.summary_reply
      /\ in.action_items_reply = GoodReplies.action_items_reply
      /\ in.emotions_reply = GoodReplies.emotions_reply
      /\ in.db_fails_at \in {NoStep, 3}
      /\ in.handler_commit_ok }

ServiceProcessRequest ==
  /\ \E meeting_id \in RequestIds, platform \in Platforms,
        in \in ServiceProcessInputs :
       process_meeting(meeting_id, platform, in.transcript_result,
                       in.summary_reply, in.action_items_reply,
                       in.emotions_reply, in.db_fails_at, in.handler_commit_ok)
  /\ UNCHANGED <<call, temp_files, loop>>

\* a batch analysis of a video that was uploaded and stored without error
ServiceVideoRequest ==
  /\ \E meeting_id \in RequestIds, outcome \in {"ok", "analysis_error"},
        analyzer_summary \in VideoSummaries \cup {AnalyzerSummary(0, <<>>, <<>>)} :
       /\ outcome # "ok" => analyzer_summary = AnalyzerSummary(0, <<>>, <<>>)
       /\ analyze_video_emotions(meeting_id, <<"video", "mp4">>, 1, outcome,
                                 analyzer_summary)
  /\ UNCHANGED <<call, pipeline, loop>>

ServiceNext ==
  \/ Tick
  \/ StartRequest
  \/ FrameRequest
  \/ StopRequest
  \/ StatusRequest
  \/ ServiceVideoRequest
  \/ ServiceProcessRequest

ServiceSpec == Init /\ [][ServiceNext]_vars

\* the stop request of meeting m that ran to its end
StopSucceeds(m) ==
  \E analyzer_summary \in Summaries : stop_emotion_analysis(m, "ok", analyzer_summary)

\* C22: a Running session leaves the live mapping, or gives way to another
\* session, only in a stop request of its own meeting id that succeeds; no
\* process_frame, start, status query, batch video analysis, transcript run
\* or tick of the clock removes or replaces it.
C22_OnlyStopRemovesSession ==
  [][\A m \in Meetings :
       (/\ Running(m)
        /\ active_emotion_analyzers'[m].analyzer
             # active_emotion_analyzers[m].analyzer) =>
          /\ StopSucceeds(m)
          /\ response'.op = "stop"
          /\ response'.meeting_id = m
          /\ response'.status_code = 200
          /\ ~Running(m)']_vars

\* a transcript run of the meeting has failed while its session is live and
\* has processed frames, and the session is still there
C22_Witness ==
  /\ response.op = "process_meeting"
  /\ response.status_code = 500
  /\ Running(response.meeting_id)
  /\ active_emotion_analyzers[response.meeting_id].frames_processed > 0

(***************************************************************************)
(* The filter, the renumbering and the scorer of the two paths, called     *)
(* directly on analyzer summaries drawn by the initial state: people on    *)
(* both sides of the duration bound and of the frame bound, in meetings    *)
(* of no length, of a length whose bound is the 3-second floor, and of a   *)
(* length whose bound is the 5 percent.                                    *)
(***************************************************************************)
FilterDurations == {2, 3, 5}
FilterFrames == {MinFrames - 1, MinFrames}
FilterMeetingDurations == {0, 40, 100}
FilterDistributions ==
  { <<>>, <<[emotion |-> "Happy", count |-> 2], [emotion |-> "sad", count |-> 1]>> }

\* the analyzer numbers the people it tracks in the order it met them; the
\* ids of a summary are not consecutive when it left people out itself
FilterPeople ==
  UNION { [1..n -> [total_duration : FilterDurations, total_frames : FilterFrames]] :
          n \in 0..MaxPeople }

FilterSummary(duration, people, distribution) ==
  AnalyzerSummary(duration,
                  [k \in 1..Len(people) |->
                     TrackedPerson(2 * k + 1, people[k].total_duration,
                                   people[k].total_frames, <<SessionShort>>)],
                  distribution)

FilterSummaries ==
  { FilterSummary(duration, people, distribution) :
      duration \in FilterMeetingDurations, people \in FilterPeople,
      distribution \in FilterDistributions }

\* what the reply of a path tells about the people and the score
AnalysisResult(summary, engagement_score) ==
  [people |-> SummaryPeople(summary.people),
   total_people_active |-> summary.total_people_active,
   engagement_score |-> engagement_score]

\* stop_emotion_analysis from the summary of the analyzer to the score
StopAnalysis(analyzer_summary) ==
  LET summary == StopFilterPeople(analyzer_summary)
  IN  AnalysisResult(summary,
                     StopEngagementScore(summary.overall_emotion_distribution))

\* analyze_video_emotions from the summary of the analyzer to the score
BatchAnalysis(analyzer_summary) ==
  LET summary == BatchFilterPeople(analyzer_summary)
  IN  AnalysisResult(summary,
                     BatchEngagementScore(summary.overall_emotion_distribution))

FilterInit ==
  /\ ServiceInit
  /\ call \in {[fn |-> "pending", arg |-> summary] : summary \in FilterSummaries}

CallStopAnalysis ==
  /\ call' = [fn |-> "stop_analysis", arg |-> call.arg,
              ret |-> StopAnalysis(call.arg)]
  /\ UNCHANGED service

CallBatchAnalysis ==
  /\ call' = [fn |-> "batch_analysis", arg |-> call.arg,
              ret |-> BatchAnalysis(call.arg)]
  /\ UNCHANGED service

FilterNext ==
  \/ CallStopAnalysis
  \/ CallBatchAnalysis

FilterSpec == FilterInit /\ [][FilterNext]_vars

\* C23: on every analyzer summary the batch path and the stop path leave
\* the same people with the same ids and names, report the same
\* total_people_active and compute the same engagement score.
C23_BatchAndStopAgree ==
  /\ call.fn = "stop_analysis" => call.ret = BatchAnalysis(call.arg)
  /\ call.fn = "batch_analysis" => call.ret = StopAnalysis(call.arg)

\* the batch path has dropped the first of two people and renumbered the
\* second, whose id was not 1, in a meeting with a scored distribution
C23_Witness ==
  /\ call.fn = "batch_analysis"
  /\ Len(call.arg.people) = 2
  /\ call.arg.people[2].person_id # 1
  /\ Len(call.ret.people) = 1
  /\ call.ret.people[1].person_id = 1
  /\ call.ret.people[1].total_duration = call.arg.people[2].total_duration
  /\ call.ret.total_people_active = 1
  /\ call.arg.overall_emotion_distribution # <<>>

(***************************************************************************)
(* Two meetings side by side: start, process_frame and stop addressed to   *)
(* either meeting id, at one instant of the clock.  A frame request of     *)
(* this specification carries one detected face.                           *)
(***************************************************************************)
\* the summary of a stop of this specification: one person who survives
\* the filter and whose session gives the timeline
CrossSummary ==
  AnalyzerSummary(100, <<TrackedPerson(5, 12, 90, <<SessionHappy>>)>>,
                  <<[emotion |-> "Happy", count |-> 90]>>)

CrossStartRequest ==
  /\ \E meeting_id \in Meetings, platform \in Platforms,
        outcome \in {"ok", "db_error"} :
       start_emotion_analysis(meeting_id, platform, outcome)
  /\ UNCHANGED <<call, pipeline, temp_files, loop>>

CrossFrameRequest ==
  /\ \E meeting_id \in Meetings, outcome \in {"ok", "frame_error"},
        frame_results \in FrameResults :
       /\ outcome = "ok" => frame_results # <<>>
       /\ process_emotion_frame(meeting_id, outcome, frame_results)
  /\ UNCHANGED <<call, pipeline, temp_files, loop>>

CrossStopRequest ==
  /\ \E meeting_id \in Meetings, outcome \in {"ok", "db_error"},
        analyzer_summary \in {CrossSummary, AnalyzerSummary(0, <<>>, <<>>)} :
       /\ outcome = "ok" => analyzer_summary = CrossSummary
       /\ stop_emotion_analysis(meeting_id, outcome, analyzer_summary)
  /\ UNCHANGED <<call, pipeline, temp_files, loop>>

CrossNext ==
  \/ CrossStartRequest
  \/ CrossFrameRequest
  \/ CrossStopRequest

CrossSpec == Init /\ [][CrossNext]_vars

\* C24: a start, a process_frame or a stop of meeting id A leaves every
\* other meeting id B as it was: B's entry of the live mapping (presence,
\* analyzer, start_time, frames_processed, last flush time), B's emotion
\* rows and B's Meeting row.
C24_OtherMeetingsUntouched ==
  [][\A a \in Meetings :
       (StartStep(a) \/ FrameStep(a) \/ StopStep(a)) =>
          \A b \in Meetings \ {a} :
            /\ active_emotion_analyzers'[b] = active_emotion_analyzers[b]
            /\ emotion_rows'[b] = emotion_rows[b]
            /\ meeting_rows'[b] = meeting_rows[b]]_vars

\* a request of one meeting has just run its periodic save or its stop
\* while the other meeting has a session with frames, rows and a Meeting
\* row of its own
C24_Witness ==
  \E a \in Meetings, b \in Meetings :
    /\ a # b
    /\ response.op \in {"process_frame", "stop"}
    /\ response.meeting_id = a
    /\ response.status_code = 200
    /\ emotion_rows[a] # <<>>
    /\ Running(b)
    /\ active_emotion_analyzers[b].frames_processed > 0
    /\ emotion_rows[b] # <<>>
    /\ meeting_rows[b] # NoMeeting

(***************************************************************************)
(* The formatted timeline, called directly on summaries drawn by the       *)
(* initial state.  The people are survivors of the filter, numbered from   *)
(* 1; a speaking session is the interval from start_time to end_time, of   *)
(* duration end_time - start_time, and the sessions of one person are in   *)
(* order and do not overlap.  Durations: none, shorter than a segment, one *)
(* segment, and two that are not a multiple of the segment.                *)
(***************************************************************************)
TimelineStarts == {0, 58}
TimelineDurations == {0, 4, 10, 12, 25}
TimelineLengths == {0, 1, 2}

TimelineSession(start_time, duration) ==
  [start_time |-> start_time, end_time |-> start_time + duration,
   duration |-> duration,
   dominant_emotion |-> IF start_time = 0 THEN "" ELSE "HAPPY",
   average_confidence |-> 80]

TimelineSessions ==
  { TimelineSession(start_time, duration) :
      start_time \in TimelineStarts, duration \in TimelineDurations }

TimelineSessionLists ==
  UNION { { q \in [1..n -> TimelineSessions] :
              \A i, j \in 1..n : i < j => q[i].end_time <= q[j].start_time } :
          n \in TimelineLengths }

TimelineSummaries ==
  { AnalyzerSummary(100, <<TrackedPerson(1, 12, 90, first)>>, <<>>) :
      first \in TimelineSessionLists }
  \cup
  { AnalyzerSummary(100, <<TrackedPerson(1, 12, 90, first),
                          TrackedPerson(2, 12, 90, second)>>, <<>>) :
      first \in TimelineSessionLists, second \in TimelineSessionLists }

TimelineInit ==
  /\ ServiceInit
  /\ call \in {[fn |-> "pending", arg |-> summary] : summary \in TimelineSummaries}

CallFormattedTimeline ==
  /\ call' = [fn |-> "formatted_timeline", arg |-> call.arg,
              ret |-> StopFormattedTimeline(call.arg)]
  /\ UNCHANGED service

TimelineNext == CallFormattedTimeline

TimelineSpec == TimelineInit /\ [][TimelineNext]_vars

FormattedTimelineReturned == call.fn = "formatted_timeline"

\* the entries of the returned timeline that lie in a session of a person,
\* in the order of the timeline
EntriesOf(person_data, session) ==
  LET In(entry) == /\ entry.person = person_data.person_name
                   /\ session.start_time <= entry.start_time
                   /\ entry.end_time <= session.end_time
  IN  SelectSeq(call.ret, In)

\* C25: the formatted timeline is in non-decreasing order of start_time
\* across all people; every entry is a segment of at most 10 seconds with
\* start_time <= end_time inside a speaking session of its person; and the
\* segments of one session do not overlap.
C25_SegmentsOrderedAndInsideSessions ==
  FormattedTimelineReturned =>
    /\ \A i \in 1..(Len(call.ret) - 1) :
         call.ret[i].start_time <= call.ret[i + 1].start_time
    /\ \A i \in 1..Len(call.ret) :
         /\ call.ret[i].start_time <= call.ret[i].end_time
         /\ call.ret[i].end_time - call.ret[i].start_time <= 10
         /\ \E p \in 1..Len(call.arg.people) :
              \E q \in 1..Len(call.arg.people[p].speaking_sessions) :
                LET session == call.arg.people[p].speaking_sessions[q]
                IN  /\ call.ret[i].person = call.arg.people[p].person_name
                    /\ session.duration > 0
                    /\ session.start_time <= call.ret[i].start_time
                    /\ call.ret[i].end_time <= session.end_time
    /\ \A p \in 1..Len(call.arg.people) :
         \A q \in 1..Len(call.arg.people[p].speaking_sessions) :
           LET entries == EntriesOf(call.arg.people[p],
                                    call.arg.people[p].speaking_sessions[q])
           IN  \A i, j \in 1..Len(entries) :
                 i < j => entries[i].end_time <= entries[j].start_time

\* the first person spoke late and the second early and for 25 seconds:
\* the timeline has the segments of the second person first
C25_Witness ==
  /\ FormattedTimelineReturned
  /\ Len(call.arg.people) = 2
  /\ call.arg.people[1].speaking_sessions # <<>>
  /\ call.arg.people[1].speaking_sessions[1].start_time = 58
  /\ call.arg.people[1].speaking_sessions[1].duration = 12
  /\ call.arg.people[2].speaking_sessions # <<>>
  /\ call.arg.people[2].speaking_sessions[1].start_time = 0
  /\ call.arg.people[2].speaking_sessions[1].duration = 25
  /\ Len(call.ret) >= 3
  /\ call.ret[1].person = PersonName(2)
  /\ call.ret[Len(call.ret)].person = PersonName(1)

\* C30: for every speaking session of positive duration of a surviving
\* person the segments of the formatted timeline cover the session: there
\* is a first segment and it starts at the session's start_time, each
\* segment starts where the one before it ends, and the last segment ends
\* at the session's end_time, whatever the duration.
C30_SegmentsCoverSession ==
  FormattedTimelineReturned =>
    \A p \in 1..Len(call.arg.people) :
      \A q \in 1..Len(call.arg.people[p].speaking_sessions) :
        LET session == call.arg.people[p].speaking_sessions[q]
            entries == EntriesOf(call.arg.people[p], session)
        IN  session.duration > 0 =>
              /\ entries # <<>>
              /\ entries[1].start_time = session.start_time
              /\ \A i \in 1..(Len(entries) - 1) :
                   entries[i].end_time = entries[i + 1].start_time
              /\ entries[Len(entries)].end_time = session.end_time

\* C26: a start that fails with an error leaves no session of its meeting
\* id in the live mapping, so that a status query asked next reports
\* is_running false and a process_frame sent next is rejected with 400.
C26_FailedStartLeavesNoSession ==
  [][\A m \in Meetings :
       (StartStep(m) /\ response'.op = "start" /\ response'.status_code = 500) =>
          ~Running(m)']_vars

\* C27: a stop that fails with 500 on a Running session leaves the session
\* in the live mapping as it was (frames_processed included), leaves the
\* committed emotion rows and the Meeting row of the meeting as they were,
\* and a stop of a Running session can always succeed, after a failed one
\* too.
C27_FailedStopKeepsSession ==
  /\ [][\A m \in Meetings :
          (/\ Running(m)
           /\ StopStep(m)
           /\ response'.op = "stop"
           /\ response'.status_code = 500) =>
             /\ active_emotion_analyzers'[m] = active_emotion_analyzers[m]
             /\ active_emotion_analyzers'[m].frames_processed
                  = active_emotion_analyzers[m].frames_processed
             /\ emotion_rows'[m] = emotion_rows[m]
             /\ meeting_rows'[m] = meeting_rows[m]]_vars
  /\ [](\A m \in RequestIds : Running(m) => ENABLED StopSucceeds(m))

\* a stop has just failed on a session that has processed frames and has
\* flushed rows
C27_Witness ==
  /\ response.op = "stop"
  /\ response.status_code = 500
  /\ Running(response.meeting_id)
  /\ active_emotion_analyzers[response.meeting_id].frames_processed > 0
  /\ emotion_rows[response.meeting_id] # <<>>
  /\ meeting_rows[response.meeting_id] # NoMeeting

\* a process_frame of meeting m whose analyzer step returned: the request
\* that runs to its end, and the one whose periodic save fails afterwards
AnalyzedFrameStep(m) ==
  \E outcome \in {"ok", "db_error"}, frame_results \in FrameResults :
    process_emotion_frame(m, outcome, frame_results)

\* C28: frames_processed of a Running session counts the process_frame
\* calls since its start whose analyzer step succeeded: a new session has
\* 0, each such call adds exactly 1, and no other step changes the count of
\* a session that stays; the status query changes neither the mapping nor
\* a table and reports is_running true exactly when the session is in the
\* mapping, together with this count.
C28_FramesProcessedCountsAnalyzedFrames ==
  [][\A m \in Meetings :
       /\ (~Running(m) /\ Running(m)') =>
            active_emotion_analyzers'[m].frames_processed = 0
       /\ (Running(m) /\ AnalyzedFrameStep(m)) =>
            active_emotion_analyzers'[m].frames_processed
              = active_emotion_analyzers[m].frames_processed + 1
       /\ (Running(m) /\ Running(m)' /\ ~AnalyzedFrameStep(m)) =>
            active_emotion_analyzers'[m].frames_processed
              = active_emotion_analyzers[m].frames_processed
       /\ (get_emotion_analysis_status(m) /\ response'.op = "status") =>
            /\ UNCHANGED <<active_emotion_analyzers, emotion_rows, meeting_rows>>
            /\ response'.is_running = Running(m)
            /\ Running(m) =>
                 response'.frames_processed
                   = active_emotion_analyzers[m].frames_processed]_vars

\* the status query reports the count of a session that has analysed
\* several frames
C28_Witness ==
  /\ response.op = "status"
  /\ response.is_running
  /\ response.frames_processed >= 2
  /\ response.frames_processed
       = active_emotion_analyzers[response.meeting_id].frames_processed

\* round(engagement_score, 1), returned as engagement_score and as
\* overall_score
ReturnedScore(result) ==
  RoundTenths(result.engagement_score.num, result.engagement_score.den)

\* C29: the engagement score of stop and of the batch analysis depends on
\* the overall_emotion_distribution of the analyzer summary only: on any
\* other summary with the same distribution, whatever its people and
\* whichever of them the filter drops, both paths compute the same score
\* and return the same rounded engagement_score and overall_score.
C29_ScoreIndependentOfFilter ==
  call.fn \in {"stop_analysis", "batch_analysis"} =>
    \A other \in FilterSummaries :
      other.overall_emotion_distribution = call.arg.overall_emotion_distribution =>
        /\ StopAnalysis(other).engagement_score = call.ret.engagement_score
        /\ BatchAnalysis(other).engagement_score = call.ret.engagement_score
        /\ ReturnedScore(StopAnalysis(other)) = ReturnedScore(call.ret)
        /\ ReturnedScore(BatchAnalysis(other)) = ReturnedScore(call.ret)

\* stop has dropped one of two people of a meeting whose distribution has
\* counts, and the score is the one of the whole distribution
C29_Witness ==
  /\ call.fn = "stop_analysis"
  /\ Len(call.arg.people) = 2
  /\ Len(call.ret.people) = 1
  /\ call.arg.overall_emotion_distribution # <<>>
  /\ call.ret.engagement_score
       = StopEngagementScore(call.arg.overall_emotion_distribution)
  /\ ReturnedScore(call.ret) = 70

====
